---- MODULE Spec2Model ----
(***************************************************************************)
(* too-many-plugins: the plugin-descriptor extractor, the content cache,   *)
(* the library index and the resolver, as a state machine over a small     *)
(* file system and the persisted maps (libraries, servers, info cache),    *)
(* with the server plugin manager that lists and installs through the      *)
(* cache.                                                                  *)
(*                                                                         *)
(* Strings whose characters matter (names, versions, entry names) are      *)
(* sequences of one-character strings.  A JavaScript value that may be     *)
(* undefined is a sequence of length 0 (undefined) or 1 (the value).       *)
(***************************************************************************)
EXTENDS Integers, Sequences, FiniteSets, TLC

VARIABLES
    fs,         \* the file system: path -> what the path holds
    libraries,  \* storage item tmp:plugin:libraries: the Library objects of
                \* the map, in the order of its keys (insertion order)
    cache,      \* storage item tmp:plugin:info-cache: path -> {info, hash}
    servers,    \* storage item tmp:servers: id -> {id, platform, path}
    ret,        \* the last operation: its name, arguments and outcome
    seen,       \* path -> the records the last getPluginInfoWithCache of the
                \* path returned, while the file has not changed since
    writes,     \* the number of changes of the file system so far
    tasks       \* the calls in progress: each one's arguments, the await it
                \* is suspended at and the maps it read from the storage

vars == <<fs, libraries, cache, servers, ret, seen, writes, tasks>>

----------------------------------------------------------------------------
(* JavaScript strings                                                      *)

Undefined == <<>>
Some(v) == <<v>>

UpperCase == <<"A","B","C","D","E","F","G","H","I","J","K","L","M",
               "N","O","P","Q","R","S","T","U","V","W","X","Y","Z">>
LowerCase == <<"a","b","c","d","e","f","g","h","i","j","k","l","m",
               "n","o","p","q","r","s","t","u","v","w","x","y","z">>

\* String.prototype.toLowerCase, on the ASCII letters.
toLowerCase(s) ==
    [i \in 1..Len(s) |->
        IF \E k \in 1..26 : UpperCase[k] = s[i]
        THEN LowerCase[CHOOSE k \in 1..26 : UpperCase[k] = s[i]]
        ELSE s[i]]

\* String.prototype.includes: sub occurs in s as a contiguous substring.
includes(s, sub) ==
    \E i \in 0..(Len(s) - Len(sub)) : SubSeq(s, i + 1, i + Len(sub)) = sub

\* Array.prototype.includes.
arrayIncludes(arr, x) == \E i \in 1..Len(arr) : arr[i] = x

Digits == <<"0","1","2","3","4","5","6","7","8","9">>

RECURSIVE NumToStr(_)
\* String(n) of a non-negative integer.
NumToStr(n) ==
    IF n < 10 THEN <<Digits[n + 1]>>
    ELSE NumToStr(n \div 10) \o <<Digits[(n % 10) + 1]>>

RECURSIVE replaceDots(_)
\* mainClass.replace(/\./g, "/")
replaceDots(s) ==
    IF s = <<>> THEN <<>>
    ELSE <<IF Head(s) = "." THEN "/" ELSE Head(s)>> \o replaceDots(Tail(s))

RECURSIVE FilterSeq(_, _)
\* Array.prototype.filter with the kept positions given by keep[i].
FilterSeq(s, keep) ==
    IF s = <<>> THEN <<>>
    ELSE (IF keep[1] THEN <<Head(s)>> ELSE <<>>)
         \o FilterSeq(Tail(s), Tail(keep))

Range(s) == {s[i] : i \in 1..Len(s)}

----------------------------------------------------------------------------
(* Archives.  An archive's content is named by a content id; Jar gives what *)
(* a zip reader sees in it: whether it opens as a zip container, and the    *)
(* text of each entry.  An entry's text is described by what the parsers    *)
(* make of it (empty, malformed, a document) and, for a compiled class, by  *)
(* the symbolic references of its constant pool.                            *)

VelocityJson == <<"v","e","l","o","c","i","t","y","-","p","l","u","g","i","n",
                  ".","j","s","o","n">>
BungeeYml == <<"b","u","n","g","e","e",".","y","m","l">>
PluginYml == <<"p","l","u","g","i","n",".","y","m","l">>
DotClass == <<".","c","l","a","s","s">>

BungeeMarker == "net/md_5/bungee/api/plugin/Plugin"
JavaPluginMarker == "org/bukkit/plugin/java/JavaPlugin"
BukkitMarker == "org/bukkit/Bukkit"

\* enum SupportedPlatform
SupportedPlatform == {"BungeeCord", "Bukkit", "Velocity", "Folia"}

NoArray == [arr |-> FALSE, v |-> <<>>]
NoVersion == [t |-> "undefined", s |-> <<>>, n |-> 0]
StrVersion(s) == [t |-> "string", s |-> s, n |-> 0]
NumVersion(n) == [t |-> "number", s |-> <<>>, n |-> n]

\* A parsed descriptor with no key set.
EmptyConfig ==
    [id |-> Undefined, name |-> Undefined, version |-> NoVersion,
     description |-> Undefined, authors |-> NoArray, loadbefore |-> NoArray,
     softdepend |-> NoArray, main |-> Undefined, folia |-> "absent"]

\* The text of a descriptor that parses to the mapping doc.
DocText(doc) ==
    [empty |-> FALSE, ok |-> TRUE, kind |-> "object", doc |-> doc, pool |-> <<>>]
\* The text of a descriptor the parser rejects.
MalformedText ==
    [empty |-> FALSE, ok |-> FALSE, kind |-> "object", doc |-> EmptyConfig,
     pool |-> <<>>]
\* The text of a compiled class with the given constant-pool references.
ClassText(pool) ==
    [empty |-> FALSE, ok |-> FALSE, kind |-> "object", doc |-> EmptyConfig,
     pool |-> pool]

S_Via == <<"V","i","a">>
S_via == <<"v","i","a">>
S_Foo == <<"F","o","o">>
S_1_0 == <<"1",".","0">>
S_2_0 == <<"2",".","0">>
V_1_2 == <<"1", ".", "2">>
V_1_2_0 == <<"1", ".", "2", ".", "0">>
V_1_10_0 == <<"1", ".", "1", "0", ".", "0">>
V_1_2_0_SNAPSHOT == V_1_2_0 \o <<"-">> \o <<"S","N","A","P","S","H","O","T">>
V_2_0_SNAPSHOT == S_2_0 \o <<"-">> \o <<"S","N","A","P","S","H","O","T">>
V_dev == <<"d", "e", "v">>
V_dev_SNAPSHOT == V_dev \o <<"-">> \o <<"S","N","A","P","S","H","O","T">>
V_undefined == <<"u", "n", "d", "e", "f", "i", "n", "e", "d">>
S_MainClass == <<"p",".","M">>
S_MainEntry == <<"p","/","M",".","c","l","a","s","s">>

\* The archives that hold a plugin.yml of name Foo, folia-supported, and the
\* version the table gives.
FooVersions ==
    "jarFoo-1.2.0" :> V_1_2_0
    @@ "jarFoo-1.10.0" :> V_1_10_0
    @@ "jarFoo-1.2.0-SNAPSHOT" :> V_1_2_0_SNAPSHOT
    @@ "jarFoo-2.0-SNAPSHOT" :> V_2_0_SNAPSHOT
    @@ "jarFoo-dev" :> V_dev

\* What the entry of a descriptor is: not in the archive, a text that parses
\* to a mapping, a text the parser rejects, the empty text, a text that
\* parses to null, a text that parses to a number.
DescStates == {"none", "ok", "malformed", "empty", "null", "scalar"}

DescText(state, doc) ==
    CASE state = "ok" -> DocText(doc)
      [] state = "empty" -> [MalformedText EXCEPT !.empty = TRUE]
      [] state = "null" -> [DocText(EmptyConfig) EXCEPT !.kind = "null"]
      [] state = "scalar" -> [DocText(EmptyConfig) EXCEPT !.kind = "scalar"]
      [] OTHER -> MalformedText

\* The entry of a descriptor, none for the state "none".
DescEntry(name, state, doc) ==
    IF state = "none" THEN {}
    ELSE {[name |-> name, text |-> DescText(state, doc)]}

\* The archives of the three descriptors, each in one of the states, and
\* nothing else: velocity-plugin.json, bungee.yml, plugin.yml.
ProbeKeys == DescStates \X DescStates \X DescStates
probeId(k) == "probes:" \o k[1] \o "," \o k[2] \o "," \o k[3]
ProbeIds == {probeId(k) : k \in ProbeKeys}
ProbeKeyOf == [c \in ProbeIds |-> CHOOSE k \in ProbeKeys : probeId(k) = c]

ProbeEntries(k) ==
    DescEntry(VelocityJson, k[1],
              [EmptyConfig EXCEPT !.id = Some(S_via),
                                  !.version = StrVersion(S_2_0)])
    \cup DescEntry(BungeeYml, k[2],
                   [EmptyConfig EXCEPT !.name = Some(S_Foo),
                                       !.version = StrVersion(S_1_0)])
    \cup DescEntry(PluginYml, k[3],
                   [EmptyConfig EXCEPT !.name = Some(S_Via),
                                       !.version = NumVersion(2),
                                       !.folia = "true"])

\* The archives of a plugin.yml alone or with its main class: main is not
\* set, names a class that is not in the archive, or names a class of the
\* archive that refers to the markers of pool; folia-supported is not set,
\* the boolean true, the boolean false, or the string "true" ("string"):
\* true or false.
Markers == {BungeeMarker, JavaPluginMarker, BukkitMarker}
ClassKeys ==
    {k \in [main : {"nomain", "noclass", "class"}, pool : SUBSET Markers,
            folia : {"absent", "true", "false", "string"}] :
        k.main # "class" => k.pool = {}}
classId(k) ==
    "main:" \o k.main
    \o "," \o (IF BungeeMarker \in k.pool THEN "B" ELSE "-")
    \o (IF JavaPluginMarker \in k.pool THEN "J" ELSE "-")
    \o (IF BukkitMarker \in k.pool THEN "K" ELSE "-")
    \o "," \o k.folia
ClassIds == {classId(k) : k \in ClassKeys}
ClassKeyOf == [c \in ClassIds |-> CHOOSE k \in ClassKeys : classId(k) = c]

\* The references of a class that holds the markers of pool.
poolSeq(pool) ==
    <<"java/lang/Object">>
    \o (IF BukkitMarker \in pool THEN <<BukkitMarker>> ELSE <<>>)
    \o (IF JavaPluginMarker \in pool THEN <<JavaPluginMarker>> ELSE <<>>)
    \o (IF BungeeMarker \in pool THEN <<BungeeMarker>> ELSE <<>>)

ClassEntries(k) ==
    {[name |-> PluginYml,
      text |-> DocText([EmptyConfig EXCEPT
                  !.name = Some(S_Foo),
                  !.version = StrVersion(S_1_0),
                  !.main = IF k.main = "nomain" THEN Undefined
                           ELSE Some(S_MainClass),
                  !.folia = k.folia])]}
    \cup (IF k.main = "class"
          THEN {[name |-> S_MainEntry, text |-> ClassText(poolSeq(k.pool))]}
          ELSE {})

ContentIds ==
    {"jarBukkit", "jarBridge", "jarCorrupt", "jarNoName", "jarVelocity",
     "jarClassOnly"}
    \cup DOMAIN FooVersions \cup ProbeIds \cup ClassIds

Jar(c) ==
    CASE c = "jarBukkit" ->
           [zip |-> TRUE,
            entries |->
              {[name |-> PluginYml,
                text |-> DocText([EmptyConfig EXCEPT
                            !.name = Some(S_Foo),
                            !.version = StrVersion(S_1_0),
                            !.main = Some(S_MainClass)])],
               [name |-> S_MainEntry,
                text |-> ClassText(<<"java/lang/Object", JavaPluginMarker>>)]}]
      [] c = "jarBridge" ->
           [zip |-> TRUE,
            entries |->
              {[name |-> VelocityJson,
                text |-> DocText([EmptyConfig EXCEPT
                            !.id = Some(S_via),
                            !.version = StrVersion(S_2_0),
                            !.authors = [arr |-> TRUE, v |-> <<S_Foo>>]])],
               [name |-> PluginYml,
                text |-> DocText([EmptyConfig EXCEPT
                            !.name = Some(S_Via),
                            !.version = NumVersion(2),
                            !.main = Some(S_MainClass),
                            !.folia = "true"])],
               [name |-> S_MainEntry,
                text |-> ClassText(<<BukkitMarker>>)]}]
      [] c = "jarCorrupt" ->
           [zip |-> FALSE, entries |-> {}]
      [] c = "jarNoName" ->
           [zip |-> TRUE,
            entries |->
              {[name |-> PluginYml,
                text |-> DocText([EmptyConfig EXCEPT !.folia = "true"])]}]
      [] c = "jarVelocity" ->
           [zip |-> TRUE,
            entries |->
              {[name |-> VelocityJson,
                text |-> DocText([EmptyConfig EXCEPT
                            !.id = Some(S_Foo),
                            !.version = StrVersion(S_2_0)])]}]
      [] c = "jarClassOnly" ->
           [zip |-> TRUE,
            entries |->
              {[name |-> S_MainEntry,
                text |-> ClassText(<<BukkitMarker>>)]}]
      [] c \in ProbeIds ->
           [zip |-> TRUE, entries |-> ProbeEntries(ProbeKeyOf[c])]
      [] c \in ClassIds ->
           [zip |-> TRUE, entries |-> ClassEntries(ClassKeyOf[c])]
      [] c \in DOMAIN FooVersions ->
           [zip |-> TRUE,
            entries |->
              {[name |-> PluginYml,
                text |-> DocText([EmptyConfig EXCEPT
                            !.name = Some(S_Foo),
                            !.version = StrVersion(FooVersions[c]),
                            !.folia = "true"])]}]

\* What a path of the file system holds: nothing, a directory, or an archive.
FileStates == {"absent", "eisdir"} \cup ContentIds

\* SHA-256 of the file's bytes, hex: distinct contents have distinct digests.
Sha256 ==
    [c \in ContentIds |->
        CASE c = "jarBukkit" -> "3fa9"
          [] c = "jarBridge" -> "c07e"
          [] c = "jarCorrupt" -> "0b15"
          [] c = "jarNoName" -> "d4d2"
          [] OTHER -> c]

----------------------------------------------------------------------------
(* Archive Reader and Descriptor Extractor.  The operators read the file   *)
(* system given as disk; a call that throws returns throws = TRUE.         *)

\* Op applied to the value v: a local constant of the code.
With(v, Op(_)) == Op(v)

NoText == MalformedText

\* fs.existsSync
existsSync(disk, path) == path \in DOMAIN disk /\ disk[path] # "absent"

\* A reader that gives the empty text for an entry the archive has not.
readFileFromJarLenient(disk, jarPath, filePath) ==
    IF ~existsSync(disk, jarPath)
    THEN [throws |-> TRUE, text |-> NoText]
    ELSE IF disk[jarPath] \notin ContentIds \/ ~Jar(disk[jarPath]).zip
    THEN [throws |-> TRUE, text |-> NoText]
    ELSE IF ~\E e \in Jar(disk[jarPath]).entries : e.name = filePath
    THEN [throws |-> FALSE, text |-> [MalformedText EXCEPT !.empty = TRUE]]
    ELSE [throws |-> FALSE,
          text |-> (CHOOSE e \in Jar(disk[jarPath]).entries :
                        e.name = filePath).text]

readFileFromJar(disk, jarPath, filePath) ==
    IF ~existsSync(disk, jarPath)
    THEN [throws |-> TRUE, text |-> NoText]                 \* JAR file not found
    ELSE IF disk[jarPath] \notin ContentIds \/ ~Jar(disk[jarPath]).zip
    THEN [throws |-> TRUE, text |-> NoText]                 \* new AdmZip throws
    ELSE IF ~\E e \in Jar(disk[jarPath]).entries : e.name = filePath
    THEN [throws |-> TRUE, text |-> NoText]                 \* File not found in JAR
    ELSE [throws |-> FALSE,
          text |-> (CHOOSE e \in Jar(disk[jarPath]).entries :
                        e.name = filePath).text]

\* classContent.includes(marker), on the references the class holds.
classIncludes(classContent, marker) == arrayIncludes(classContent.pool, marker)

\* The platform the class content tells, "" for null.
checkClassInheritance(classContent) ==
    IF classIncludes(classContent, BungeeMarker) THEN "BungeeCord"
    ELSE IF classIncludes(classContent, JavaPluginMarker) THEN "Bukkit"
    ELSE IF classIncludes(classContent, BukkitMarker) THEN "Bukkit"
    ELSE ""

ensureString(value) ==
    CASE value.t = "string" -> value.s
      [] value.t = "number" -> NumToStr(value.n)
      [] OTHER -> <<"u","n","d","e","f","i","n","e","d">>

arrayOrEmpty(a) == IF a.arr THEN a.v ELSE <<>>

parseYamlConfig(config) ==
    [name |-> config.name,
     version |-> ensureString(config.version),
     description |-> config.description,
     authors |-> arrayOrEmpty(config.authors),
     loadbefore |-> arrayOrEmpty(config.loadbefore),
     softdepend |-> arrayOrEmpty(config.softdepend),
     platform |-> <<>>]

parseJsonConfig(config) ==
    [name |-> config.id,
     version |-> ensureString(config.version),
     description |-> config.description,
     authors |-> arrayOrEmpty(config.authors),
     loadbefore |-> <<>>,
     softdepend |-> <<>>,
     platform |-> <<>>]

\* A probe that takes a descriptor it cannot read for an empty mapping.
probeConfigLenient(disk, jarPath, entry) ==
    With(readFileFromJar(disk, jarPath, entry), LAMBDA r :
        IF r.throws THEN Some(DocText(EmptyConfig))
        ELSE IF r.text.empty \/ ~r.text.ok \/ r.text.kind = "null"
        THEN Undefined
        ELSE Some(r.text))

\* A probe's descriptor: read, non-empty, parsed, and not null.  Some(text)
\* when every step succeeds, Undefined when one of them throws or gives up.
probeConfig(disk, jarPath, entry) ==
    With(readFileFromJar(disk, jarPath, entry), LAMBDA r :
        IF r.throws \/ r.text.empty \/ ~r.text.ok \/ r.text.kind = "null"
        THEN Undefined
        ELSE Some(r.text))

\* A Velocity probe that takes nothing but a mapping for a descriptor.
getVelocityPluginInfoOfObject(disk, jarPath) ==
    With(probeConfig(disk, jarPath, VelocityJson), LAMBDA c :
        IF c = Undefined \/ c[1].kind # "object" THEN Undefined
        ELSE Some([parseJsonConfig(c[1].doc) EXCEPT !.platform = <<"Velocity">>]))

getVelocityPluginInfo(disk, jarPath) ==
    With(probeConfig(disk, jarPath, VelocityJson), LAMBDA c :
        IF c = Undefined THEN Undefined
        ELSE Some([parseJsonConfig(c[1].doc) EXCEPT !.platform = <<"Velocity">>]))

getBungeePluginInfo(disk, jarPath) ==
    With(probeConfig(disk, jarPath, BungeeYml), LAMBDA c :
        IF c = Undefined THEN Undefined
        ELSE Some([parseYamlConfig(c[1].doc)
                     EXCEPT !.platform = <<"BungeeCord">>]))

\* A main class signal that adds nothing for a class without a marker.
mainClassPlatformsKnown(disk, jarPath, config) ==
    IF config.main = Undefined THEN <<>>
    ELSE With(readFileFromJar(disk, jarPath,
                              replaceDots(config.main[1]) \o DotClass),
              LAMBDA r :
                IF r.throws THEN <<>>
                ELSE IF checkClassInheritance(r.text) # ""
                THEN <<checkClassInheritance(r.text)>>
                ELSE <<>>)

\* The platforms the main class tells (lines 162-182).
mainClassPlatforms(disk, jarPath, config) ==
    IF config.main = Undefined THEN <<>>
    ELSE With(readFileFromJar(disk, jarPath,
                              replaceDots(config.main[1]) \o DotClass),
              LAMBDA r :
                IF r.throws THEN <<>>
                ELSE IF checkClassInheritance(r.text) # ""
                THEN <<checkClassInheritance(r.text)>>
                ELSE <<"Bukkit", "BungeeCord">>)

\* A platform list that takes every truthy folia-supported for true.
commonPlatformsTruthy(disk, jarPath, config) ==
    mainClassPlatforms(disk, jarPath, config)
    \o (IF config.folia \in {"true", "string"} THEN <<"Folia">> ELSE <<>>)

\* The platform list of the Common probe once both signals are in.
commonPlatforms(disk, jarPath, config) ==
    mainClassPlatforms(disk, jarPath, config)
    \o (IF config.folia = "true" THEN <<"Folia">> ELSE <<>>)

\* A Common probe that returns its record whatever the platform list.
getCommonPluginInfoKept(disk, jarPath) ==
    With(probeConfig(disk, jarPath, PluginYml), LAMBDA c :
        IF c = Undefined THEN Undefined
        ELSE IF c[1].kind # "object" THEN Undefined
        ELSE Some([parseYamlConfig(c[1].doc)
                     EXCEPT !.platform = commonPlatforms(disk, jarPath,
                                                         c[1].doc)]))

getCommonPluginInfo(disk, jarPath) ==
    With(probeConfig(disk, jarPath, PluginYml), LAMBDA c :
        IF c = Undefined THEN Undefined
        ELSE IF c[1].kind # "object" THEN Undefined  \* "main" in config throws
        ELSE With(commonPlatforms(disk, jarPath, c[1].doc), LAMBDA platform :
                IF Len(platform) > 0
                THEN Some([parseYamlConfig(c[1].doc)
                             EXCEPT !.platform = platform])
                ELSE Undefined))

\* An extraction that stops at the first probe that yields a record.
getPluginInfoFirst(disk, jarPath) ==
    IF getVelocityPluginInfo(disk, jarPath) # <<>>
    THEN getVelocityPluginInfo(disk, jarPath)
    ELSE IF getBungeePluginInfo(disk, jarPath) # <<>>
    THEN getBungeePluginInfo(disk, jarPath)
    ELSE getCommonPluginInfo(disk, jarPath)

getPluginInfo(disk, jarPath) ==
    getVelocityPluginInfo(disk, jarPath)
    \o getBungeePluginInfo(disk, jarPath)
    \o getCommonPluginInfo(disk, jarPath)

----------------------------------------------------------------------------
(* Paths.  A directory is the sequence of its segments from the root; a    *)
(* file path is its directory and its base name.                           *)

Cwd == <<"home">>

\* path.resolve of [abs, segs]
resolve(p) == IF p.abs THEN p.segs ELSE Cwd \o p.segs

\* path.join(dir, file)
join(dir, file) == [dir |-> dir, base |-> file]

\* path.join(dir, "plugins"): the directory one segment below dir
joinDir(dir, segment) == Append(dir, segment)

\* path.basename of a file path
basename(path) == path.base

\* path.extname: from the last "." of the base name, "" when there is none
\* or when the name starts with its only ".".
extname(file) ==
    LET dots == {i \in 1..Len(file) : file[i] = "."} IN
    IF dots = {} THEN <<>>
    ELSE LET last == CHOOSE i \in dots : \A j \in dots : j <= i IN
         IF last = 1 THEN <<>> ELSE SubSeq(file, last, Len(file))

DotJar == <<".","j","a","r">>

LibDir == <<"home", "lib1">>
F_a == <<"a",".","j","a","r">>
F_b == <<"b",".","J","A","R">>
F_c == <<"c",".","j","a","r">>
F_notes == <<"n",".","t","x","t">>

VerDir == <<"home", "lib2">>

SrvDir == <<"home", "srv1">>
PluginsDir == joinDir(SrvDir, "plugins")

\* The directories that exist, and every file path of the model in the
\* order readdir lists them.
Directories == {LibDir, VerDir, SrvDir, PluginsDir}
Listing == <<join(LibDir, F_a), join(LibDir, F_b), join(LibDir, F_notes),
             join(VerDir, F_a), join(VerDir, F_b), join(VerDir, F_c),
             join(PluginsDir, F_a), join(PluginsDir, F_b)>>
AllPaths == Range(Listing)
\* The archives of the library directory, those of the second library
\* directory, those of the server's plugins directory, and all of them.
LibPaths == {join(LibDir, F_a), join(LibDir, F_b)}
VerPaths == {join(VerDir, F_a), join(VerDir, F_b), join(VerDir, F_c)}
SrvPaths == {join(PluginsDir, F_a), join(PluginsDir, F_b)}
JarPaths == LibPaths \cup VerPaths \cup SrvPaths

\* The path of a directory itself, for a file system that records whether
\* the directory is there.
DirKey(dir) == join(dir, <<>>)

\* fs.existsSync(dir) && fs.statSync(dir).isDirectory(); the same condition
\* lets fs.promises.readdir(dir) succeed.  A directory the file system does
\* not record is there.
isDirectory(disk, dir) ==
    /\ dir \in Directories
    /\ DirKey(dir) \in DOMAIN disk => disk[DirKey(dir)] # "absent"

\* fs.promises.readdir(dir) then the .jar filter and the join; [] when the
\* directory cannot be read.
getJarFiles(disk, folderPath) ==
    IF ~isDirectory(disk, folderPath) THEN <<>>
    ELSE FilterSeq(Listing,
            [i \in 1..Len(Listing) |->
                /\ Listing[i].dir = folderPath
                /\ disk[Listing[i]] # "absent"
                /\ toLowerCase(extname(Listing[i].base)) = DotJar])

----------------------------------------------------------------------------
(* Content Cache                                                           *)

getFileHash(disk, filePath) ==
    IF ~existsSync(disk, filePath) \/ disk[filePath] \notin ContentIds
    THEN [throws |-> TRUE, hash |-> ""]                     \* fs.readFile throws
    ELSE [throws |-> FALSE, hash |-> Sha256[disk[filePath]]]

\* A lookup that takes a stored entry with no records for a miss.
cacheHitNonEmpty(cch, jarPath, hash) ==
    /\ jarPath \in DOMAIN cch
    /\ cch[jarPath].hash = hash
    /\ cch[jarPath].info # <<>>

\* A lookup by path alone, the stored hash not compared.
cacheHitByPath(cch, jarPath, hash) == jarPath \in DOMAIN cch

\* cache[jarPath] && cache[jarPath].hash === hash
cacheHit(cch, jarPath, hash) ==
    jarPath \in DOMAIN cch /\ cch[jarPath].hash = hash

\* A store that writes a map holding the new entry alone.
cachePutAlone(cch, jarPath, info, hash) ==
    [q \in {jarPath} |-> [info |-> info, hash |-> hash]]

\* cache[jarPath] = { info, hash }
cachePut(cch, jarPath, info, hash) ==
    [q \in DOMAIN cch \cup {jarPath} |->
        IF q = jarPath THEN [info |-> info, hash |-> hash] ELSE cch[q]]

\* The call's outcome: the records returned, the cache map as stored, and
\* whether getPluginInfo was invoked.
getPluginInfoWithCache(disk, cch, jarPath) ==
    With(getFileHash(disk, jarPath), LAMBDA h :
        IF h.throws
        THEN [throws |-> TRUE, info |-> <<>>, cache |-> cch,
              extracted |-> FALSE]
        ELSE IF cacheHit(cch, jarPath, h.hash)
        THEN [throws |-> FALSE, info |-> cch[jarPath].info, cache |-> cch,
              extracted |-> FALSE]
        ELSE With(getPluginInfo(disk, jarPath), LAMBDA info :
                [throws |-> FALSE, info |-> info,
                 cache |-> cachePut(cch, jarPath, info, h.hash),
                 extracted |-> TRUE]))

----------------------------------------------------------------------------
(* Library Index                                                           *)

\* The most entries a library's index holds in the model.
MaxEntries == 4

hashesOf(plugins) == {plugins[i].hash : i \in 1..Len(plugins)}

\* library.plugins.find((plugin) => plugin.hash === hash): the first entry
\* of the hash alone.
existingPluginsFirst(plugins, hash) ==
    SubSeq(FilterSeq(plugins, [i \in 1..Len(plugins) |-> plugins[i].hash = hash]),
           1, 1)

\* library.plugins.filter((plugin) => plugin.hash === hash)
existingPlugins(plugins, hash) ==
    FilterSeq(plugins, [i \in 1..Len(plugins) |-> plugins[i].hash = hash])

\* An entry for the first record of infoList alone.
newEntriesFirst(infoList, hash, jarFile) ==
    [i \in 1..(IF infoList = <<>> THEN 0 ELSE 1) |->
        [info |-> infoList[i], hash |-> hash, jarPath |-> jarFile]]

\* One PluginEntry per record of infoList.
newEntries(infoList, hash, jarFile) ==
    [i \in 1..Len(infoList) |->
        [info |-> infoList[i], hash |-> hash, jarPath |-> jarFile]]

\* The loop's state after the extraction branch (lines 136-143) for jarFile.
extractStep(acc, r, hash, jarFile) ==
    [throws |-> r.throws,
     newPlugins |-> acc.newPlugins \o newEntries(r.info, hash, jarFile),
     cache |-> r.cache,
     calls |-> Append(acc.calls, [path |-> jarFile, info |-> r.info]),
     extracted |-> IF r.extracted THEN acc.extracted \cup {jarFile}
                   ELSE acc.extracted]

\* One iteration of the loop over jarFiles (lines 122-144).
indexStep(disk, jarFile, plugins, rebuild, acc) ==
    With(getFileHash(disk, jarFile), LAMBDA h :
        IF h.throws THEN [acc EXCEPT !.throws = TRUE]
        ELSE IF ~rebuild /\ h.hash \in hashesOf(plugins)
        THEN [acc EXCEPT !.newPlugins = @ \o existingPlugins(plugins, h.hash)]
        ELSE extractStep(acc, getPluginInfoWithCache(disk, acc.cache, jarFile),
                         h.hash, jarFile))

RECURSIVE indexLoop(_, _, _, _, _)
\* The loop over jarFiles.  acc carries newPlugins, the cache map as stored
\* so far, the calls of getPluginInfoWithCache made (path and records
\* returned), the paths getPluginInfo was invoked on, and whether a call
\* has thrown.
indexLoop(disk, jarFiles, plugins, rebuild, acc) ==
    IF jarFiles = <<>> \/ acc.throws THEN acc
    ELSE indexLoop(disk, Tail(jarFiles), plugins, rebuild,
                   indexStep(disk, Head(jarFiles), plugins, rebuild, acc))

\* Object.keys(libraries)
libraryIds(libs) == {libs[i].id : i \in 1..Len(libs)}

\* libraries[id], for an id of the map
libraryGet(libs, id) == libs[CHOOSE i \in 1..Len(libs) : libs[i].id = id]

\* libraries[id] = library: in place for a key of the map, else a new last key.
libraryPut(libs, id, library) ==
    IF id \in libraryIds(libs)
    THEN [i \in 1..Len(libs) |-> IF libs[i].id = id THEN library ELSE libs[i]]
    ELSE Append(libs, library)

\* delete libraries[id]
libraryDelete(libs, id) ==
    FilterSeq(libs, [i \in 1..Len(libs) |-> libs[i].id # id])

\* An index stored as far as the loop got when a candidate cannot be read.
indexResultPartial(libs, id, acc) ==
    [err |-> IF acc.throws THEN "ReadError" ELSE "",
     libraries |-> libraryPut(libs, id,
                     [libraryGet(libs, id) EXCEPT !.plugins = acc.newPlugins]),
     cache |-> acc.cache, calls |-> acc.calls, extracted |-> acc.extracted]

\* An index kept per directory: the new entries are set in every library of
\* the library's path.
indexResultShared(libs, id, acc) ==
    IF acc.throws
    THEN [err |-> "ReadError", libraries |-> libs, cache |-> acc.cache,
          calls |-> acc.calls, extracted |-> acc.extracted]
    ELSE [err |-> "",
          libraries |-> [i \in 1..Len(libs) |->
                           IF libs[i].path = libraryGet(libs, id).path
                           THEN [libs[i] EXCEPT !.plugins = acc.newPlugins]
                           ELSE libs[i]],
          cache |-> acc.cache, calls |-> acc.calls,
          extracted |-> acc.extracted]

\* What updateLibraryIndex leaves once the loop has ended with acc.
indexResult(libs, id, acc) ==
    IF acc.throws
    THEN [err |-> "ReadError", libraries |-> libs, cache |-> acc.cache,
          calls |-> acc.calls, extracted |-> acc.extracted]
    ELSE [err |-> "",
          libraries |-> libraryPut(libs, id,
                          [libraryGet(libs, id)
                             EXCEPT !.plugins = acc.newPlugins]),
          cache |-> acc.cache, calls |-> acc.calls,
          extracted |-> acc.extracted]

\* An index update that fails when the directory cannot be read.
updateLibraryIndexChecked(disk, libs, cch, id, rebuild) ==
    IF id \notin libraryIds(libs)
    THEN [err |-> "LibraryNotFound", libraries |-> libs, cache |-> cch,
          calls |-> <<>>, extracted |-> {}]
    ELSE IF ~isDirectory(disk, libraryGet(libs, id).path)
    THEN [err |-> "ReadError", libraries |-> libs, cache |-> cch,
          calls |-> <<>>, extracted |-> {}]
    ELSE indexResult(libs, id,
            indexLoop(disk, getJarFiles(disk, libraryGet(libs, id).path),
                      IF rebuild THEN <<>> ELSE libraryGet(libs, id).plugins,
                      rebuild,
                      [throws |-> FALSE, newPlugins |-> <<>>, cache |-> cch,
                       calls |-> <<>>, extracted |-> {}]))

\* updateLibraryIndex(id, rebuild): err, the libraries map and the cache map
\* as persisted when the call ends, and what the loop did.
updateLibraryIndex(disk, libs, cch, id, rebuild) ==
    IF id \notin libraryIds(libs)
    THEN [err |-> "LibraryNotFound", libraries |-> libs, cache |-> cch,
          calls |-> <<>>, extracted |-> {}]
    ELSE indexResult(libs, id,
            indexLoop(disk, getJarFiles(disk, libraryGet(libs, id).path),
                      IF rebuild THEN <<>> ELSE libraryGet(libs, id).plugins,
                      rebuild,
                      [throws |-> FALSE, newPlugins |-> <<>>, cache |-> cch,
                       calls |-> <<>>, extracted |-> {}]))

\* addLibrary(id, libraryPath)
addLibrary(disk, libs, cch, id, libraryPath) ==
    IF id \in libraryIds(libs)
    THEN [err |-> "IdExists", libraries |-> libs, cache |-> cch,
          calls |-> <<>>, extracted |-> {}]
    ELSE IF ~isDirectory(disk, resolve(libraryPath))
    THEN [err |-> "PathInvalid", libraries |-> libs, cache |-> cch,
          calls |-> <<>>, extracted |-> {}]
    ELSE updateLibraryIndex(disk,
            libraryPut(libs, id, [id |-> id, path |-> resolve(libraryPath),
                                  plugins |-> <<>>]),
            cch, id, FALSE)

\* removeLibrary(id)
removeLibrary(libs, id) ==
    IF id \notin libraryIds(libs)
    THEN [err |-> "LibraryNotFound", libraries |-> libs]
    ELSE [err |-> "", libraries |-> libraryDelete(libs, id)]

\* getLibrary(id)
getLibrary(libs, id) ==
    IF id \notin libraryIds(libs)
    THEN [err |-> "LibraryNotFound", library |-> <<>>]
    ELSE [err |-> "", library |-> <<libraryGet(libs, id)>>]

----------------------------------------------------------------------------
(* Version ordering                                                        *)

SnapshotMarker == <<"S","N","A","P","S","H","O","T">>

isDigit(ch) == \E k \in 1..10 : Digits[k] = ch

digitValue(ch) == (CHOOSE k \in 1..10 : Digits[k] = ch) - 1

RECURSIVE StrToNum(_)
\* The number a run of decimal digits writes.
StrToNum(s) ==
    IF s = <<>> THEN 0
    ELSE StrToNum(SubSeq(s, 1, Len(s) - 1)) * 10 + digitValue(s[Len(s)])

\* The last position of the run of digits of s that starts at i.
runEnd(s, i) ==
    CHOOSE j \in i..Len(s) :
        /\ \A k \in i..j : isDigit(s[k])
        /\ (j = Len(s) \/ ~isDigit(s[j + 1]))

\* Whether "." and a digit follow position e of s: the next component.
hasNext(s, e) == e + 2 <= Len(s) /\ s[e + 1] = "." /\ isDigit(s[e + 2])

\* The components after the major one that ends at e1.
coerceFrom(s, i, e1) ==
    IF ~hasNext(s, e1)
    THEN <<StrToNum(SubSeq(s, i, e1)), 0, 0>>
    ELSE IF ~hasNext(s, runEnd(s, e1 + 2))
    THEN <<StrToNum(SubSeq(s, i, e1)),
           StrToNum(SubSeq(s, e1 + 2, runEnd(s, e1 + 2))), 0>>
    ELSE <<StrToNum(SubSeq(s, i, e1)),
           StrToNum(SubSeq(s, e1 + 2, runEnd(s, e1 + 2))),
           StrToNum(SubSeq(s, runEnd(s, e1 + 2) + 2,
                           runEnd(s, runEnd(s, e1 + 2) + 2)))>>

\* semver.valid(semver.coerce(version)): major.minor.patch read from the
\* first run of digits of the string and the up to two dotted runs that
\* follow it, missing components 0; Undefined (null) for a string with no
\* digit.  Runs of digits are shorter than 17.
coerce(version) ==
    IF ~\E i \in 1..Len(version) : isDigit(version[i]) THEN Undefined
    ELSE With(CHOOSE i \in 1..Len(version) :
                  /\ isDigit(version[i])
                  /\ \A k \in 1..(i - 1) : ~isDigit(version[k]),
              LAMBDA i : Some(coerceFrom(version, i, runEnd(version, i))))

\* semver.rcompare(a, b) of two major.minor.patch triples: negative when a
\* is the greater.
rcompare(a, b) ==
    IF a[1] # b[1] THEN (IF a[1] > b[1] THEN -1 ELSE 1)
    ELSE IF a[2] # b[2] THEN (IF a[2] > b[2] THEN -1 ELSE 1)
    ELSE IF a[3] # b[3] THEN (IF a[3] > b[3] THEN -1 ELSE 1)
    ELSE 0

\* Lines 247-258: the one with the marker after the one without it.
snapshotOrder(a, b) ==
    IF includes(a, SnapshotMarker) /\ ~includes(b, SnapshotMarker) THEN 1
    ELSE IF ~includes(a, SnapshotMarker) /\ includes(b, SnapshotMarker) THEN -1
    ELSE 0

\* A comparison by structure alone, the marker not looked at.
compareStructural(a, b) ==
    IF coerce(a) # Undefined /\ coerce(b) # Undefined
    THEN rcompare(coerce(a)[1], coerce(b)[1])
    ELSE 0

\* The comparison function sortVersions sorts with (lines 236-259): negative
\* when a goes before b, newest first.
compareVersions(a, b) ==
    IF /\ coerce(a) # Undefined
       /\ coerce(b) # Undefined
       /\ rcompare(coerce(a)[1], coerce(b)[1]) # 0
    THEN rcompare(coerce(a)[1], coerce(b)[1])
    ELSE snapshotOrder(a, b)

RECURSIVE insertVersion(_, _)
\* x put into the sorted list: before the elements at its end that it goes
\* strictly before.
insertVersion(sorted, x) ==
    IF sorted = <<>> THEN <<x>>
    ELSE IF compareVersions(x, sorted[Len(sorted)]) < 0
    THEN Append(insertVersion(SubSeq(sorted, 1, Len(sorted) - 1), x),
                sorted[Len(sorted)])
    ELSE Append(sorted, x)

RECURSIVE sortVersions(_)
\* versions.sort(compare): a stable sort.  findPlugin sorts arrays of two,
\* which every stable sort orders alike.
sortVersions(versions) ==
    IF versions = <<>> THEN <<>>
    ELSE insertVersion(sortVersions(SubSeq(versions, 1, Len(versions) - 1)),
                       versions[Len(versions)])

----------------------------------------------------------------------------
(* Resolver/Search                                                         *)

\* A filter of findPlugin is applied when its value is truthy: given, and not
\* the empty string.
given(opt) == opt # Undefined /\ opt[1] # <<>>
givenId(opt) == opt # Undefined /\ opt[1] # ""

NoFilters ==
    [name |-> Undefined, pluginVersion |-> Undefined, platform |-> Undefined,
     libraryId |-> Undefined, latest |-> FALSE]

\* plugin.info.name.toLowerCase() throws on a name that is undefined.
nameThrows(plugins, filters) ==
    given(filters.name)
    /\ \E i \in 1..Len(plugins) : plugins[i].info.name = Undefined

\* The three filters of one library (lines 188-207), for plugins whose names
\* are all strings when the name filter is given.
filterPlugins(plugins, filters) ==
    FilterSeq(plugins,
        [i \in 1..Len(plugins) |->
            /\ given(filters.name) =>
                  includes(toLowerCase(plugins[i].info.name[1]),
                           toLowerCase(filters.name[1]))
            /\ given(filters.pluginVersion) =>
                  plugins[i].info.version = filters.pluginVersion[1]
            /\ filters.platform # Undefined =>
                  arrayIncludes(plugins[i].info.platform, filters.platform[1])])

RECURSIVE searchLoop(_, _, _)
\* The loop over Object.values(searchLibraries) (lines 187-210).
searchLoop(searchLibraries, filters, acc) ==
    IF searchLibraries = <<>> \/ acc.err # "" THEN acc
    ELSE searchLoop(Tail(searchLibraries), filters,
            IF nameThrows(Head(searchLibraries).plugins, filters)
            THEN [acc EXCEPT !.err = "TypeError"]
            ELSE [acc EXCEPT !.results =
                    @ \o filterPlugins(Head(searchLibraries).plugins, filters)])

\* findPlugin without the test of lines 183-185: the loop reads .plugins of
\* libraries[libraryId], undefined for an unknown id.
findPluginUnchecked(libs, filters) ==
    IF givenId(filters.libraryId) /\ filters.libraryId[1] \notin libraryIds(libs)
    THEN [err |-> "TypeError", results |-> <<>>]
    ELSE searchLoop(IF givenId(filters.libraryId)
                    THEN <<libraryGet(libs, filters.libraryId[1])>>
                    ELSE libs,
                    filters, [err |-> "", results |-> <<>>])

\* findPlugin(filters) up to line 210: the entries the filters leave.
searchPlugins(libs, filters) ==
    IF givenId(filters.libraryId) /\ filters.libraryId[1] \notin libraryIds(libs)
    THEN [err |-> "LibraryNotFound", results |-> <<>>]
    ELSE searchLoop(IF givenId(filters.libraryId)
                    THEN <<libraryGet(libs, filters.libraryId[1])>>
                    ELSE libs,
                    filters, [err |-> "", results |-> <<>>])

\* plugin put in the place of the entry at i.
latestSet(latestVersions, i, plugin) == [latestVersions EXCEPT ![i] = plugin]

\* The step of a map whose key is the name together with the platforms.
latestStepByPlatform(latestVersions, plugin) ==
    IF \A i \in 1..Len(latestVersions) :
           \/ latestVersions[i].info.name # plugin.info.name
           \/ latestVersions[i].info.platform # plugin.info.platform
    THEN Append(latestVersions, plugin)
    ELSE With(CHOOSE i \in 1..Len(latestVersions) :
                  /\ latestVersions[i].info.name = plugin.info.name
                  /\ latestVersions[i].info.platform = plugin.info.platform,
              LAMBDA i :
                  IF sortVersions(<<plugin.info.version,
                                    latestVersions[i].info.version>>)[1]
                         = plugin.info.version
                  THEN latestSet(latestVersions, i, plugin)
                  ELSE latestVersions)

\* The step that keeps the entry a name was first seen with.
latestStepFirst(latestVersions, plugin) ==
    IF \A i \in 1..Len(latestVersions) :
           latestVersions[i].info.name # plugin.info.name
    THEN Append(latestVersions, plugin)
    ELSE latestVersions

\* Lines 215-222: latestVersions, the values of the Map in the order their
\* keys were first set, after plugin.  The key is plugin.info.name, which
\* may be undefined; an entry is replaced where it is.
latestStep(latestVersions, plugin) ==
    IF \A i \in 1..Len(latestVersions) :
           latestVersions[i].info.name # plugin.info.name
    THEN Append(latestVersions, plugin)
    ELSE With(CHOOSE i \in 1..Len(latestVersions) :
                  latestVersions[i].info.name = plugin.info.name,
              LAMBDA i :
                  IF sortVersions(<<plugin.info.version,
                                    latestVersions[i].info.version>>)[1]
                         = plugin.info.version
                  THEN latestSet(latestVersions, i, plugin)
                  ELSE latestVersions)

RECURSIVE latestLoop(_, _)
\* The loop of lines 214-223 over results.
latestLoop(results, latestVersions) ==
    IF results = <<>> THEN latestVersions
    ELSE latestLoop(Tail(results), latestStep(latestVersions, Head(results)))

\* findPlugin(filters)
findPlugin(libs, filters) ==
    With(searchPlugins(libs, filters),
         LAMBDA r : IF filters.latest /\ r.err = ""
                    THEN [r EXCEPT !.results = latestLoop(r.results, <<>>)]
                    ELSE r)

----------------------------------------------------------------------------
(* Server Registry and Server Plugin Manager                               *)

\* fs.access of a directory path
access(dir) == dir \in Directories

\* servers[id] = server
serverPut(srvs, id, server) ==
    [k \in DOMAIN srvs \cup {id} |-> IF k = id THEN server ELSE srvs[k]]

\* Names every object inherits from Object.prototype: servers[id] of such
\* a name is a function when the map has no server of the name.
ObjectPrototype == {"toString", "constructor"}

\* servers[id] is truthy
serverAt(srvs, id) ==
    \/ id \in DOMAIN srvs
    \/ id \in ObjectPrototype

\* addServer(id, serverPath, platform)
addServer(srvs, id, serverPath, platform) ==
    IF serverAt(srvs, id)
    THEN [err |-> "IdExists", servers |-> srvs]
    ELSE IF platform \notin SupportedPlatform
    THEN [err |-> "InvalidPlatform", servers |-> srvs]
    ELSE IF ~access(resolve(serverPath))
    THEN [err |-> "PathInvalid", servers |-> srvs]
    ELSE [err |-> "",
          servers |-> serverPut(srvs, id,
                        [id |-> id, platform |-> platform,
                         path |-> resolve(serverPath)])]

\* delete servers[id]
serverDelete(srvs, id) ==
    [k \in DOMAIN srvs \ {id} |-> srvs[k]]

\* removeServer(id)
removeServer(srvs, id) ==
    IF ~serverAt(srvs, id)
    THEN [err |-> "ServerNotFound", servers |-> srvs]
    ELSE [err |-> "", servers |-> serverDelete(srvs, id)]

\* updates.platform is truthy: the field is given and is not the empty
\* string.
platformGiven(updates) ==
    /\ "platform" \in DOMAIN updates
    /\ updates.platform # ""

\* updates.path = path.resolve(updates.path)
resolveUpdates(updates) ==
    IF "path" \in DOMAIN updates
    THEN [updates EXCEPT !.path = resolve(@)]
    ELSE updates

\* { ...servers[id], ...updates }: the own fields of servers[id], a function
\* of Object.prototype has none, with those of updates over them.
spread(srvs, id, updates) ==
    IF id \in DOMAIN srvs THEN updates @@ srvs[id] ELSE updates

\* updateServer(id, updates)
updateServer(srvs, id, updates) ==
    IF ~serverAt(srvs, id)
    THEN [err |-> "ServerNotFound", servers |-> srvs]
    ELSE IF /\ platformGiven(updates)
            /\ updates.platform \notin SupportedPlatform
    THEN [err |-> "InvalidPlatform", servers |-> srvs]
    ELSE IF /\ "path" \in DOMAIN updates
            /\ ~access(resolve(updates.path))
    THEN [err |-> "PathInvalid", servers |-> srvs]
    ELSE [err |-> "",
          servers |-> serverPut(srvs, id,
                        spread(srvs, id, resolveUpdates(updates)))]

\* info.find((p) => p.platform.includes(platform)) ?? info[0]
thisPlatformInfo(info, platform) ==
    IF \E i \in 1..Len(info) : arrayIncludes(info[i].platform, platform)
    THEN Some(info[CHOOSE i \in 1..Len(info) :
                 /\ arrayIncludes(info[i].platform, platform)
                 /\ \A j \in 1..(i - 1) :
                      ~arrayIncludes(info[j].platform, platform)])
    ELSE IF Len(info) > 0 THEN Some(info[1])
    ELSE Undefined

\* The loop's state after one jarPath of listPlugins (lines 79-84).
listStep(disk, acc, r, platform, jarPath) ==
    IF r.throws THEN [acc EXCEPT !.throws = TRUE]
    ELSE [throws |-> FALSE,
          plugins |-> Append(acc.plugins,
                        [info |-> thisPlatformInfo(r.info, platform),
                         hash |-> getFileHash(disk, jarPath).hash,
                         jarPath |-> jarPath]),
          cache |-> r.cache,
          calls |-> Append(acc.calls, [path |-> jarPath, info |-> r.info]),
          extracted |-> IF r.extracted THEN acc.extracted \cup {jarPath}
                        ELSE acc.extracted]

RECURSIVE listLoop(_, _, _, _)
\* The loop of listPlugins over jarFiles.
listLoop(disk, jarFiles, platform, acc) ==
    IF jarFiles = <<>> \/ acc.throws THEN acc
    ELSE listLoop(disk, Tail(jarFiles), platform,
            listStep(disk, acc,
                     getPluginInfoWithCache(disk, acc.cache, Head(jarFiles)),
                     platform, Head(jarFiles)))

\* listPlugins(serverId), once getServer has returned server.
listPluginsOf(disk, cch, server) ==
    listLoop(disk, getJarFiles(disk, joinDir(server.path, "plugins")),
             server.platform,
             [throws |-> FALSE, plugins |-> <<>>, cache |-> cch,
              calls |-> <<>>, extracted |-> {}])

\* What a loop that ended with acc gives the caller.
listResult(acc) ==
    [err |-> IF acc.throws THEN "ReadError" ELSE "", plugins |-> acc.plugins,
     cache |-> acc.cache, calls |-> acc.calls, extracted |-> acc.extracted]

\* listPlugins(serverId)
listPlugins(disk, srvs, cch, serverId) ==
    IF serverId \notin DOMAIN srvs
    THEN [err |-> "ServerNotFound", plugins |-> <<>>, cache |-> cch,
          calls |-> <<>>, extracted |-> {}]
    ELSE listResult(listPluginsOf(disk, cch, srvs[serverId]))

\* existingPlugins.find((p) => p.info.name === x.name), x an object when
\* readable: the position of the first plugin accepted (0 for none), or
\* throws when the callback reads .name of undefined first.
findByName(plugins, readable, name) ==
    LET bad(i) == plugins[i].info = Undefined \/ ~readable
        stops == {i \in 1..Len(plugins) :
                     bad(i) \/ plugins[i].info[1].name = name}
    IN  IF stops = {} THEN [throws |-> FALSE, at |-> 0]
        ELSE With(CHOOSE i \in stops : \A j \in stops : i <= j, LAMBDA i :
                [throws |-> bad(i), at |-> IF bad(i) THEN 0 ELSE i])

\* fs.unlink(path)
unlink(disk, path) == [disk EXCEPT ![path] = "absent"]

\* fs.copyFile(src, dest): disk is left as given when it throws.
copyFile(disk, src, dest) ==
    IF \/ getFileHash(disk, src).throws
       \/ dest.dir \notin Directories
       \/ disk[dest] = "eisdir"
    THEN [throws |-> TRUE, fs |-> disk]
    ELSE [throws |-> FALSE, fs |-> [disk EXCEPT ![dest] = disk[src]]]

\* What a plugin operation leaves: the error thrown, the file system, the
\* cache map as stored, and the cache calls made.
PluginOutcome(err, disk, cch, calls, extracted) ==
    [err |-> err, fs |-> disk, cache |-> cch, calls |-> calls,
     extracted |-> extracted]

\* installOrUpdatePlugin from the lookup of the same-name plugin on (lines
\* 31-43): r is the new plugin's cache call, l the listing, newInfo the
\* record picked for the server's platform.
installFinish(disk, server, pluginPath, r, l, newInfo) ==
    With(findByName(l.plugins, newInfo # Undefined,
                    IF newInfo = Undefined THEN Undefined
                    ELSE newInfo[1].name),
         LAMBDA found :
            IF found.throws
            THEN PluginOutcome("TypeError", disk, l.cache, l.calls, l.extracted)
            ELSE With(copyFile(IF found.at > 0
                               THEN unlink(disk, l.plugins[found.at].jarPath)
                               ELSE disk,
                               pluginPath,
                               join(joinDir(server.path, "plugins"),
                                    basename(pluginPath))),
                      LAMBDA c :
                        PluginOutcome(IF c.throws THEN "CopyError" ELSE "",
                                      c.fs, l.cache, l.calls, l.extracted)))

\* The listing of installOrUpdatePlugin, made after the cache call r of the
\* new plugin: its calls and extractions follow r's.
listAfter(disk, server, pluginPath, r) ==
    listLoop(disk, getJarFiles(disk, joinDir(server.path, "plugins")),
             server.platform,
             [throws |-> FALSE, plugins |-> <<>>, cache |-> r.cache,
              calls |-> <<[path |-> pluginPath, info |-> r.info]>>,
              extracted |-> IF r.extracted THEN {pluginPath} ELSE {}])

\* installOrUpdatePlugin(serverId, pluginPath)
installOrUpdatePlugin(disk, srvs, cch, serverId, pluginPath) ==
    IF serverId \notin DOMAIN srvs
    THEN PluginOutcome("ServerNotFound", disk, cch, <<>>, {})
    ELSE With(getPluginInfoWithCache(disk, cch, pluginPath), LAMBDA r :
            IF r.throws
            THEN PluginOutcome("ReadError", disk, r.cache, <<>>, {})
            ELSE With(listAfter(disk, srvs[serverId], pluginPath, r),
                      LAMBDA l :
                        IF l.throws
                        THEN PluginOutcome("ReadError", disk, l.cache, l.calls,
                                           l.extracted)
                        ELSE installFinish(disk, srvs[serverId], pluginPath,
                                r, l,
                                thisPlatformInfo(r.info,
                                                 srvs[serverId].platform))))

\* The filters a command that names no platform would search with.
installFiltersAnyPlatform(options, server) ==
    [name |-> Some(options.name), pluginVersion |-> options.version,
     latest |-> options.latest, platform |-> Undefined,
     libraryId |-> options.library]

\* The filters of the library install command (index.ts 136-142): the
\* version filter is options.version, a key the command's options never set.
installFilters(options, server) ==
    [name |-> Some(options.name), pluginVersion |-> options.version,
     latest |-> options.latest, platform |-> Some(server.platform),
     libraryId |-> options.library]

\* What the command leaves when it deploys nothing.
NotInstalled(err, disk, cch) ==
    [err |-> err, fs |-> disk, cache |-> cch, calls |-> <<>>,
     extracted |-> {}, entry |-> Undefined]

\* The action of the library install command: the error it reports, the
\* file system and the cache map it leaves, and the entry it deployed.
libraryInstall(disk, libs, srvs, cch, options) ==
    IF ~given(options.pluginVersion) /\ ~options.latest
    THEN NotInstalled("VersionOrLatest", disk, cch)
    ELSE IF options.server \notin DOMAIN srvs
    THEN NotInstalled("ServerNotFound", disk, cch)
    ELSE With(findPlugin(libs, installFilters(options, srvs[options.server])),
              LAMBDA found :
        IF found.err # "" THEN NotInstalled(found.err, disk, cch)
        ELSE IF Len(found.results) = 0 THEN NotInstalled("NoMatch", disk, cch)
        ELSE IF Len(found.results) > 1 THEN NotInstalled("Multiple", disk, cch)
        ELSE With(installOrUpdatePlugin(disk, srvs, cch, options.server,
                                        found.results[1].jarPath),
                  LAMBDA r :
                    [err |-> r.err, fs |-> r.fs, cache |-> r.cache,
                     calls |-> r.calls, extracted |-> r.extracted,
                     entry |-> IF r.err = "" THEN Some(found.results[1])
                               ELSE Undefined]))

\* removePlugin(serverId, pluginId)
removePlugin(disk, srvs, cch, serverId, pluginId) ==
    IF serverId \notin DOMAIN srvs
    THEN PluginOutcome("ServerNotFound", disk, cch, <<>>, {})
    ELSE With(listPluginsOf(disk, cch, srvs[serverId]), LAMBDA l :
            IF l.throws
            THEN PluginOutcome("ReadError", disk, l.cache, l.calls, l.extracted)
            ELSE With(findByName(l.plugins, TRUE, Some(pluginId)),
                      LAMBDA found :
                        IF found.throws
                        THEN PluginOutcome("TypeError", disk, l.cache, l.calls,
                                           l.extracted)
                        ELSE IF found.at = 0
                        THEN PluginOutcome("PluginNotFound", disk, l.cache,
                                           l.calls, l.extracted)
                        ELSE PluginOutcome("",
                                unlink(disk, l.plugins[found.at].jarPath),
                                l.cache, l.calls, l.extracted)))

----------------------------------------------------------------------------
(* The state machine.  Every operation runs to its end before the next     *)
(* starts (one command per process); the file system changes between       *)
(* operations.                                                             *)

\* The record of an operation: its name, the library id and the rebuild flag
\* given, the error thrown ("" for none), the calls of getPluginInfoWithCache
\* made (path and records returned), the paths getPluginInfo was invoked on,
\* and a note on the state the operation started in.
Outcome(op, id, rebuild, err, extracted) ==
    [op |-> op, id |-> id, rebuild |-> rebuild, err |-> err, calls |-> <<>>,
     extracted |-> extracted, note |-> ""]

\* The most changes of the file system in one behaviour.
MaxWrites == 2

LibIds == {"main"}
PathArgs == {[abs |-> TRUE, segs |-> LibDir],
             [abs |-> FALSE, segs |-> <<"lib1">>],
             [abs |-> TRUE, segs |-> <<"nowhere">>]}
\* What the archives of the library directory hold in Spec.
SpecStates == {"absent", "eisdir", "jarBukkit", "jarBridge", "jarCorrupt"}
\* What they hold in SpecFind.
FindStates == {"absent", "jarBukkit", "jarBridge", "jarNoName"}

RECURSIVE seenAfter(_, _)
\* seen once the calls, in order, have returned.
seenAfter(sn, calls) ==
    IF calls = <<>> THEN sn
    ELSE seenAfter([sn EXCEPT ![Head(calls).path] = Some(Head(calls).info)],
                   Tail(calls))

\* The calls that may be in progress at once.
TaskIds == {"t1", "t2"}

\* No call in progress.
Idle ==
    [op |-> "idle", pc |-> "idle", id |-> "", jarPath |-> join(<<>>, <<>>),
     libs |-> <<>>, cch |-> <<>>, err |-> "", wrote |-> FALSE]

\* Nothing is stored yet; the files of paths hold the archives of states,
\* the library directory holds a file that is no .jar, every other path is
\* free.
Disks(paths, states) ==
    {[p \in AllPaths |->
        IF p \in paths THEN g[p]
        ELSE IF p = join(LibDir, F_notes) THEN "jarBukkit"
        ELSE "absent"] :
     g \in [paths -> states \cup {"absent"}]}

\* Nothing is stored and no call has been made.
NothingStored ==
    /\ libraries = <<>>
    /\ cache = <<>>
    /\ servers = <<>>
    /\ seen = [p \in JarPaths |-> Undefined]
    /\ writes = 0
    /\ ret = Outcome("init", "", FALSE, "", {})
    /\ tasks = [t \in TaskIds |-> Idle]

InitOver(paths, states) ==
    /\ fs \in Disks(paths, states)
    /\ NothingStored

\* The archives are those of the library directory.
InitWith(states) == InitOver(LibPaths, states)

Init == InitWith(SpecStates)

\* The operator adds, removes or replaces an archive, or a directory takes
\* the place of the name.
WriteFile(p, c) ==
    /\ fs[p] # c
    /\ writes < MaxWrites
    /\ writes' = writes + 1
    /\ fs' = [fs EXCEPT ![p] = c]
    /\ seen' = [seen EXCEPT ![p] = Undefined]
    /\ ret' = Outcome("writeFile", "", FALSE, "", {})
    /\ UNCHANGED <<tasks, libraries, cache, servers>>

AddLibrary(id, libraryPath) ==
    \E r \in {addLibrary(fs, libraries, cache, id, libraryPath)} :
        /\ libraries' = r.libraries
        /\ cache' = r.cache
        /\ seen' = seenAfter(seen, r.calls)
        /\ ret' = [Outcome("addLibrary", id, FALSE, r.err, r.extracted)
                     EXCEPT !.calls = r.calls]
        /\ UNCHANGED <<tasks, fs, servers, writes>>

RemoveLibrary(id) ==
    \E r \in {removeLibrary(libraries, id)} :
        /\ libraries' = r.libraries
        /\ ret' = Outcome("removeLibrary", id, FALSE, r.err, {})
        /\ UNCHANGED <<tasks, fs, cache, servers, seen, writes>>

GetLibrary(id) ==
    \E r \in {getLibrary(libraries, id)} :
        /\ ret' = Outcome("getLibrary", id, FALSE, r.err, {})
        /\ UNCHANGED <<tasks, fs, libraries, cache, servers, seen, writes>>

UpdateLibraryIndex(id, rebuild) ==
    \E r \in {updateLibraryIndex(fs, libraries, cache, id, rebuild)} :
        /\ id \in libraryIds(r.libraries)
              => Len(libraryGet(r.libraries, id).plugins) <= MaxEntries
        /\ libraries' = r.libraries
        /\ cache' = r.cache
        /\ seen' = seenAfter(seen, r.calls)
        /\ ret' = [Outcome("updateLibraryIndex", id, rebuild, r.err,
                           r.extracted)
                     EXCEPT !.calls = r.calls,
                            !.note = IF /\ r.err = ""
                                        /\ ~rebuild
                                        /\ ret.op \in {"updateLibraryIndex",
                                                       "addLibrary"}
                                        /\ ret.id = id
                                        /\ ~ret.rebuild
                                        /\ ret.err = ""
                                     THEN "repeat" ELSE ""]
        /\ UNCHANGED <<tasks, fs, servers, writes>>

GetPluginInfoWithCache(jarPath) ==
    \E r \in {getPluginInfoWithCache(fs, cache, jarPath)} :
        /\ cache' = r.cache
        /\ seen' = IF r.throws THEN seen
                   ELSE [seen EXCEPT ![jarPath] = Some(r.info)]
        /\ ret' = [Outcome("getPluginInfoWithCache", "", FALSE,
                           IF r.throws THEN "ReadError" ELSE "",
                           IF r.extracted THEN {jarPath} ELSE {})
                     EXCEPT !.calls = IF r.throws THEN <<>>
                                      ELSE <<[path |-> jarPath,
                                              info |-> r.info]>>,
                            !.note = IF r.extracted /\ jarPath \in DOMAIN cache
                                     THEN "superseded" ELSE ""]
        /\ UNCHANGED <<tasks, fs, libraries, servers, writes>>

FindPlugin(filters) ==
    \E r \in {findPlugin(libraries, filters)} :
        /\ ret' = [Outcome("findPlugin",
                           IF filters.libraryId = Undefined THEN ""
                           ELSE filters.libraryId[1],
                           FALSE, r.err, {})
                     EXCEPT !.note = IF Len(r.results) > 0 THEN "found"
                                     ELSE ""]
                  @@ [latest |-> filters.latest]
        /\ UNCHANGED <<tasks, fs, libraries, cache, servers, seen, writes>>

AddServer(id, serverPath, platform) ==
    \E r \in {addServer(servers, id, serverPath, platform)} :
        /\ servers' = r.servers
        /\ ret' = Outcome("addServer", id, FALSE, r.err, {})
        /\ UNCHANGED <<tasks, fs, libraries, cache, seen, writes>>

RemoveServer(id) ==
    \E r \in {removeServer(servers, id)} :
        /\ servers' = r.servers
        /\ ret' = Outcome("removeServer", id, FALSE, r.err, {})
        /\ UNCHANGED <<tasks, fs, libraries, cache, seen, writes>>

UpdateServer(id, updates) ==
    \E r \in {updateServer(servers, id, updates)} :
        /\ servers' = r.servers
        /\ ret' = Outcome("updateServer", id, FALSE, r.err, {})
        /\ UNCHANGED <<tasks, fs, libraries, cache, seen, writes>>

\* seen once an operation that made calls has left the file system as disk:
\* a path whose content it changed is unseen again.
seenOnce(calls, disk) ==
    [p \in JarPaths |->
        IF disk[p] # fs[p] THEN Undefined ELSE seenAfter(seen, calls)[p]]

ListPlugins(serverId) ==
    \E r \in {listPlugins(fs, servers, cache, serverId)} :
        /\ cache' = r.cache
        /\ seen' = seenAfter(seen, r.calls)
        /\ ret' = [Outcome("listPlugins", serverId, FALSE, r.err, r.extracted)
                     EXCEPT !.calls = r.calls,
                            !.note = IF \E p \in r.extracted : p \in DOMAIN cache
                                     THEN "superseded" ELSE ""]
        /\ UNCHANGED <<tasks, fs, libraries, servers, writes>>

InstallOrUpdatePlugin(serverId, pluginPath) ==
    \E r \in {installOrUpdatePlugin(fs, servers, cache, serverId, pluginPath)} :
        /\ fs' = r.fs
        /\ cache' = r.cache
        /\ seen' = seenOnce(r.calls, r.fs)
        /\ ret' = [Outcome("installOrUpdatePlugin", serverId, FALSE, r.err,
                           r.extracted)
                     EXCEPT !.calls = r.calls]
        /\ UNCHANGED <<tasks, libraries, servers, writes>>

RemovePlugin(serverId, pluginId) ==
    \E r \in {removePlugin(fs, servers, cache, serverId, pluginId)} :
        /\ fs' = r.fs
        /\ cache' = r.cache
        /\ seen' = seenOnce(r.calls, r.fs)
        /\ ret' = [Outcome("removePlugin", serverId, FALSE, r.err, r.extracted)
                     EXCEPT !.calls = r.calls]
        /\ UNCHANGED <<tasks, libraries, servers, writes>>

LibraryInstall(options) ==
    \E r \in {libraryInstall(fs, libraries, servers, cache, options)} :
        /\ fs' = r.fs
        /\ cache' = r.cache
        /\ seen' = seenOnce(r.calls, r.fs)
        /\ ret' = [Outcome("libraryInstall", options.server, FALSE, r.err,
                           r.extracted)
                     EXCEPT !.calls = r.calls]
                  @@ [entry |-> r.entry, name |-> options.name,
                      pluginVersion |-> options.pluginVersion,
                      latest |-> options.latest]
        /\ UNCHANGED <<tasks, libraries, servers, writes>>

\* The filters findPlugin is called with in the model.
FindLibIds == {"main", "extra"}
FindAnyIds == {"main", "extra", "nope"}
NameFilters == {Undefined, Some(S_via), Some(<<"O","O">>)}
VersionFilters == {Undefined, Some(S_1_0), Some(<<"2">>)}
PlatformFilters == {Undefined, Some("Bukkit"), Some("Folia")}
LibraryFilters == {Undefined} \cup {Some(id) : id \in FindAnyIds}
Filters ==
    {[NoFilters EXCEPT !.name = n, !.pluginVersion = v, !.platform = pf,
                       !.libraryId = l] :
        n \in NameFilters, v \in VersionFilters, pf \in PlatformFilters,
        l \in LibraryFilters}

Next ==
    \/ \E p \in LibPaths, c \in SpecStates : WriteFile(p, c)
    \/ \E id \in LibIds, d \in PathArgs : AddLibrary(id, d)
    \/ \E id \in LibIds : RemoveLibrary(id)
    \/ \E id \in LibIds, rebuild \in BOOLEAN : UpdateLibraryIndex(id, rebuild)
    \/ \E p \in LibPaths : GetPluginInfoWithCache(p)

Spec == Init /\ [][Next]_vars

\* The library commands over two libraries of one unchanging directory.
NextFind ==
    \/ \E id \in FindLibIds, d \in PathArgs : AddLibrary(id, d)
    \/ \E id \in FindAnyIds : RemoveLibrary(id)
    \/ \E id \in FindAnyIds : GetLibrary(id)
    \/ \E id \in FindAnyIds, rebuild \in BOOLEAN :
          UpdateLibraryIndex(id, rebuild)
    \/ \E f \in Filters : FindPlugin(f)

InitFind == InitWith(FindStates)

SpecFind == InitFind /\ [][NextFind]_vars

\* The library commands over two libraries of one directory whose archive
\* changes between commands.
FrameStates == {"jarBukkit", "jarBridge"}

NextFrame ==
    \/ \E c \in FrameStates : WriteFile(join(LibDir, F_a), c)
    \/ \E id \in FindLibIds : AddLibrary(id, [abs |-> TRUE, segs |-> LibDir])
    \/ \E id \in FindLibIds : RemoveLibrary(id)
    \/ \E id \in FindLibIds, rebuild \in BOOLEAN :
          UpdateLibraryIndex(id, rebuild)
    \/ FindPlugin(NoFilters)

InitFrame == InitOver({join(LibDir, F_a)}, FrameStates)

SpecFrame == InitFrame /\ [][NextFrame]_vars

\* rm -r dir: the directory and the files in it are gone.
RemoveDirectory(dir) ==
    /\ DirKey(dir) \in DOMAIN fs
    /\ fs[DirKey(dir)] # "absent"
    /\ writes < MaxWrites
    /\ writes' = writes + 1
    /\ fs' = [p \in DOMAIN fs |-> IF p.dir = dir THEN "absent" ELSE fs[p]]
    /\ seen' = [p \in JarPaths |-> IF p.dir = dir THEN Undefined ELSE seen[p]]
    /\ ret' = Outcome("removeDirectory", "", FALSE, "", {})
    /\ UNCHANGED <<tasks, libraries, cache, servers>>

\* The library commands over a directory that may be removed.
GoneStates == {"jarBukkit", "jarBridge", "jarCorrupt"}

NextGone ==
    \/ RemoveDirectory(LibDir)
    \/ \E id \in LibIds : AddLibrary(id, [abs |-> TRUE, segs |-> LibDir])
    \/ \E id \in LibIds, rebuild \in BOOLEAN : UpdateLibraryIndex(id, rebuild)

\* The file system records that the library directory is there.
InitGone ==
    /\ fs \in {d @@ (DirKey(LibDir) :> "dir") : d \in Disks(LibPaths, GoneStates)}
    /\ NothingStored

SpecGone == InitGone /\ [][NextGone]_vars

\* The server commands next to the library's: archives are installed from
\* the library directory into the server's plugins directory.
ServerIds == {"s1"}
ServerPathArgs == {[abs |-> TRUE, segs |-> SrvDir],
                   [abs |-> TRUE, segs |-> <<"nowhere">>]}
PlatformArgs == {"Velocity", "Spigot"}
DeployStates == {"absent", "jarBukkit", "jarBridge", "jarCorrupt"}

NextDeploy ==
    \/ \E c \in DeployStates : WriteFile(join(LibDir, F_a), c)
    \/ \E id \in LibIds : AddLibrary(id, [abs |-> TRUE, segs |-> LibDir])
    \/ \E id \in LibIds, rebuild \in BOOLEAN : UpdateLibraryIndex(id, rebuild)
    \/ \E id \in ServerIds, d \in ServerPathArgs, pf \in PlatformArgs :
          AddServer(id, d, pf)
    \/ \E id \in ServerIds : ListPlugins(id)
    \/ \E id \in ServerIds, p \in LibPaths : InstallOrUpdatePlugin(id, p)

InitDeploy == InitWith(DeployStates)

SpecDeploy == InitDeploy /\ [][NextDeploy]_vars

\* The library install command over one library and one server.
CommandStates == {"jarBukkit", "jarBridge", "jarVelocity"}
CommandWrites == {"jarVelocity", "absent"}
CommandPlatforms == {"Velocity", "Bukkit"}
InstallOptions ==
    {[name |-> n, pluginVersion |-> v, version |-> Undefined, latest |-> l,
      library |-> lib, server |-> srv] :
        n \in {S_Foo, S_via}, v \in {Undefined, Some(S_1_0)},
        l \in BOOLEAN, lib \in {Undefined, Some("main")}, srv \in ServerIds}

NextCommand ==
    \/ \E c \in CommandWrites : WriteFile(join(LibDir, F_a), c)
    \/ \E id \in LibIds : AddLibrary(id, [abs |-> TRUE, segs |-> LibDir])
    \/ \E id \in ServerIds, pf \in CommandPlatforms :
          AddServer(id, [abs |-> TRUE, segs |-> SrvDir], pf)
    \/ \E options \in InstallOptions : LibraryInstall(options)

InitCommand == InitWith(CommandStates)

SpecCommand == InitCommand /\ [][NextCommand]_vars

\* Installs into a plugins directory that holds archives already.
InstallStates == {"jarBukkit", "jarVelocity", "jarBridge", "jarClassOnly"}

NextInstall ==
    \/ \E id \in ServerIds, d \in ServerPathArgs, pf \in PlatformArgs :
          AddServer(id, d, pf)
    \/ \E id \in ServerIds : ListPlugins(id)
    \/ \E id \in ServerIds, p \in LibPaths : InstallOrUpdatePlugin(id, p)
    \/ \E id \in ServerIds, n \in {S_Foo, S_via} : RemovePlugin(id, n)

InitInstall == InitOver(SrvPaths \cup {join(LibDir, F_a)}, InstallStates)

SpecInstall == InitInstall /\ [][NextInstall]_vars

\* The version strings sortVersions is given.
VersionStrings ==
    {S_1_0, S_2_0, V_1_2, V_1_2_0, V_1_10_0, V_1_2_0_SNAPSHOT, V_2_0_SNAPSHOT,
     V_dev, V_dev_SNAPSHOT, V_undefined}

\* sortVersions([a, b]), as findPlugin calls it.
SortVersions(versions) ==
    /\ ret' = [op |-> "sortVersions", err |-> "", versions |-> versions,
               sorted |-> sortVersions(versions)]
    /\ UNCHANGED <<tasks, fs, libraries, cache, servers, seen, writes>>

NextSort ==
    \E a \in VersionStrings, b \in VersionStrings : SortVersions(<<a, b>>)

InitSort ==
    /\ InitWith({"jarBukkit"})
    /\ \A p \in LibPaths : fs[p] = "jarBukkit"

SpecSort == InitSort /\ [][NextSort]_vars

\* The find command with and without --latest over a library of the second
\* directory, whose three archives hold plugins of one name in several
\* versions, plugins of other names and a plugin without a name.
LatestStates ==
    {"absent", "jarBukkit", "jarVelocity", "jarBridge", "jarNoName"}
    \cup DOMAIN FooVersions
LatestNames == {Undefined, Some(S_Foo)}
LatestPlatforms == {Undefined, Some("Folia")}
FindFilters ==
    {[NoFilters EXCEPT !.name = n, !.platform = pf, !.latest = b] :
        n \in LatestNames, pf \in LatestPlatforms, b \in BOOLEAN}

NextLatest ==
    \/ \E id \in LibIds : AddLibrary(id, [abs |-> TRUE, segs |-> VerDir])
    \/ \E f \in FindFilters : FindPlugin(f)

InitLatest == InitOver(VerPaths, LatestStates)

SpecLatest == InitLatest /\ [][NextLatest]_vars

\* The extraction of one archive of the library directory, drawn from the
\* archives of the three descriptors, those of a plugin.yml and its main
\* class, an archive of a class alone and a file that is no archive: by the
\* cache call, and by the index of a library of the directory.
ExtractStates == ProbeIds \cup ClassIds \cup {"jarClassOnly", "jarCorrupt"}

NextExtract ==
    \/ \E p \in LibPaths : GetPluginInfoWithCache(p)
    \/ \E id \in LibIds : AddLibrary(id, [abs |-> TRUE, segs |-> LibDir])
    \/ \E id \in LibIds, rebuild \in BOOLEAN : UpdateLibraryIndex(id, rebuild)

InitExtract == InitOver({join(LibDir, F_a)}, ExtractStates)

SpecExtract == InitExtract /\ [][NextExtract]_vars

\* readFileFromJar(jarPath, filePath), called on its own.
ReadFileFromJar(jarPath, filePath) ==
    \E r \in {readFileFromJar(fs, jarPath, filePath)} :
        /\ ret' = Outcome("readFileFromJar", "", FALSE,
                          IF r.throws THEN "Error" ELSE "", {})
                  @@ [jarPath |-> jarPath, filePath |-> filePath,
                      text |-> r.text]
        /\ UNCHANGED <<tasks, fs, libraries, cache, servers, seen, writes>>

\* The archives read and the entries asked for.
ReadStates == ExtractStates \cup {"eisdir", "jarBridge"}
EntryArgs == {VelocityJson, BungeeYml, PluginYml, S_MainEntry}

NextRead ==
    \/ \E c \in {"jarBukkit", "absent"} : WriteFile(join(LibDir, F_a), c)
    \/ \E p \in LibPaths, e \in EntryArgs : ReadFileFromJar(p, e)

InitRead == InitOver({join(LibDir, F_a)}, ReadStates)

SpecRead == InitRead /\ [][NextRead]_vars

\* The server commands alone.  An id may be a name of Object.prototype, a
\* platform may be unsupported or the empty string, a path may lead
\* nowhere.
RegistryIds == {"s1", "s2", "toString"}
RegistryPlatforms == {"Velocity", "Bukkit", "Spigot", ""}
RegistryUpdates ==
    {<<>>}
    \cup {[platform |-> pf] : pf \in RegistryPlatforms}
    \cup {[path |-> d] : d \in ServerPathArgs}
    \cup {[platform |-> pf, path |-> d] :
            pf \in RegistryPlatforms, d \in ServerPathArgs}

NextRegistry ==
    \/ \E id \in RegistryIds, d \in ServerPathArgs, pf \in RegistryPlatforms :
          AddServer(id, d, pf)
    \/ \E id \in RegistryIds, updates \in RegistryUpdates :
          UpdateServer(id, updates)
    \/ \E id \in RegistryIds : RemoveServer(id)

InitRegistry == InitOver({}, {})

SpecRegistry == InitRegistry /\ [][NextRegistry]_vars

----------------------------------------------------------------------------
(* Interleaved calls.  A call is suspended at each await of the storage:   *)
(* it reads a map, changes its own copy of it, and the copy is stored      *)
(* when the call resumes.  Other calls run in between.                     *)

\* The map a write of another kind would store: what is stored with the
\* caller's own key replaced.
storeLibrariesMerged(stored, task) ==
    IF task.id \in libraryIds(task.libs)
    THEN libraryPut(stored, task.id, libraryGet(task.libs, task.id))
    ELSE stored

\* storage.setItem(LIBRARIES_KEY, libraries): the caller's copy of the map
\* replaces what is stored.
storeLibraries(stored, task) ==
    task.libs

\* storage.setItem(PLUGIN_CACHE_KEY, cache)
storeCache(stored, task) ==
    task.cch

\* addLibrary from its call to its setItem: the map is read, the checks are
\* made and the new library is set in the copy.
addLibraryRead(libs, id, libraryPath) ==
    IF id \in libraryIds(libs)
    THEN [Idle EXCEPT !.op = "addLibrary", !.id = id, !.pc = "done",
                      !.err = "IdExists"]
    ELSE IF resolve(libraryPath) \notin Directories
    THEN [Idle EXCEPT !.op = "addLibrary", !.id = id, !.pc = "done",
                      !.err = "PathInvalid"]
    ELSE [Idle EXCEPT !.op = "addLibrary", !.id = id, !.pc = "write",
                      !.libs = libraryPut(libs, id,
                                  [id |-> id, path |-> resolve(libraryPath),
                                   plugins |-> <<>>])]

\* updateLibraryIndex(id) from its call to its setItem: the map is read, the
\* loop runs over the directory and the new entries are set in the copy.
\* The task of the call and the cache map the loop leaves.
indexRead(disk, libs, cch, task) ==
    With(updateLibraryIndex(disk, libs, cch, task.id, FALSE), LAMBDA r :
        [cache |-> r.cache,
         task |-> IF r.err # ""
                  THEN [task EXCEPT !.pc = "done", !.err = r.err]
                  ELSE [task EXCEPT !.pc = "indexWrite",
                                    !.libs = r.libraries]])

\* getPluginInfoWithCache(jarPath) from its call to its setItem.
cacheRead(disk, cch, jarPath) ==
    With(getPluginInfoWithCache(disk, cch, jarPath), LAMBDA r :
        IF r.throws
        THEN [Idle EXCEPT !.op = "getPluginInfoWithCache",
                          !.jarPath = jarPath, !.pc = "done",
                          !.err = "ReadError"]
        ELSE IF ~r.extracted
        THEN [Idle EXCEPT !.op = "getPluginInfoWithCache",
                          !.jarPath = jarPath, !.pc = "done"]
        ELSE [Idle EXCEPT !.op = "getPluginInfoWithCache",
                          !.jarPath = jarPath, !.pc = "cacheWrite",
                          !.cch = r.cache])

\* The number of entries the call's copy of the map holds for its library.
entriesOf(task) ==
    IF task.id \in libraryIds(task.libs)
    THEN Len(libraryGet(task.libs, task.id).plugins) ELSE 0

\* A call of addLibrary starts and reads the map.
AddLibraryRead(t, id, libraryPath) ==
    /\ tasks[t].pc = "idle"
    /\ tasks' = [tasks EXCEPT ![t] = addLibraryRead(libraries, id, libraryPath)]
    /\ UNCHANGED <<fs, libraries, cache, servers, ret, seen, writes>>

\* A call of updateLibraryIndex starts, reads the map and runs its loop.
UpdateLibraryIndexRead(t, id) ==
    /\ tasks[t].pc = "idle"
    /\ \E r \in {indexRead(fs, libraries, cache,
                            [Idle EXCEPT !.op = "updateLibraryIndex",
                                         !.id = id])} :
          /\ entriesOf(r.task) <= MaxEntries
          /\ tasks' = [tasks EXCEPT ![t] = r.task]
          /\ cache' = r.cache
    /\ UNCHANGED <<fs, libraries, servers, ret, seen, writes>>

\* return await updateLibraryIndex(id), at the end of addLibrary
AddLibraryIndexRead(t) ==
    /\ tasks[t].pc = "indexRead"
    /\ \E r \in {indexRead(fs, libraries, cache, tasks[t])} :
          /\ entriesOf(r.task) <= MaxEntries
          /\ tasks' = [tasks EXCEPT ![t] = r.task]
          /\ cache' = r.cache
    /\ UNCHANGED <<fs, libraries, servers, ret, seen, writes>>

\* The setItem of a call is carried out: its copy of the map is stored.
LibrariesWrite(t) ==
    /\ tasks[t].pc \in {"write", "indexWrite"}
    /\ libraries' = storeLibraries(libraries, tasks[t])
    /\ tasks' = [tasks EXCEPT ![t].pc = IF tasks[t].pc = "write"
                                         THEN "indexRead" ELSE "done",
                               ![t].wrote = TRUE]
    /\ UNCHANGED <<fs, cache, servers, ret, seen, writes>>

\* A call of getPluginInfoWithCache starts and reads the cache map.
CacheRead(t, jarPath) ==
    /\ tasks[t].pc = "idle"
    /\ tasks' = [tasks EXCEPT ![t] = cacheRead(fs, cache, jarPath)]
    /\ UNCHANGED <<fs, libraries, cache, servers, ret, seen, writes>>

\* Its setItem is carried out.
CacheWrite(t) ==
    /\ tasks[t].pc = "cacheWrite"
    /\ cache' = storeCache(cache, tasks[t])
    /\ tasks' = [tasks EXCEPT ![t].pc = "done", ![t].wrote = TRUE]
    /\ UNCHANGED <<fs, libraries, servers, ret, seen, writes>>

\* The calls in progress have all returned and the host goes on.
Return ==
    /\ \A t \in TaskIds : tasks[t].pc \in {"idle", "done"}
    /\ \E t \in TaskIds : tasks[t].pc = "done"
    /\ tasks' = [t \in TaskIds |-> Idle]
    /\ UNCHANGED <<fs, libraries, cache, servers, ret, seen, writes>>

\* What the archives of the library directory hold in SpecRace.
RaceStates == {"jarBukkit"}
RaceWrites == {"jarBridge"}

NextRace ==
    \/ \E p \in LibPaths, c \in RaceWrites : WriteFile(p, c)
    \/ \E t \in TaskIds, id \in FindLibIds :
          AddLibraryRead(t, id, [abs |-> TRUE, segs |-> LibDir])
    \/ \E t \in TaskIds, id \in FindLibIds : UpdateLibraryIndexRead(t, id)
    \/ \E t \in TaskIds : AddLibraryIndexRead(t)
    \/ \E t \in TaskIds : LibrariesWrite(t)
    \/ \E t \in TaskIds, p \in LibPaths : CacheRead(t, p)
    \/ \E t \in TaskIds : CacheWrite(t)
    \/ Return

InitRace == InitOver({join(LibDir, F_a)}, RaceStates)

SpecRace == InitRace /\ [][NextRace]_vars

----------------------------------------------------------------------------
(* The claims.                                                             *)

\* The last operation was updateLibraryIndex(ret.id, rebuild) and it returned.
Reindexed(rebuild) ==
    /\ ret.op = "updateLibraryIndex"
    /\ ret.err = ""
    /\ ret.rebuild = rebuild

\* The archive paths the directory scan of library id finds now.
Candidates(id) == Range(getJarFiles(fs, libraryGet(libraries, id).path))

\* The jarPaths of the entries of plugins.
JarPathsOf(plugins) == {plugins[i].jarPath : i \in 1..Len(plugins)}

\* C1: after updateLibraryIndex(id, rebuild=false) completes, every persisted
\* entry of the library has a jarPath found by that run's directory scan (the
\* file system has not changed since the run: a change resets ret).
C1_EntriesAreCandidates ==
    Reindexed(FALSE) =>
        JarPathsOf(libraryGet(libraries, ret.id).plugins) \subseteq Candidates(ret.id)

\* C2: when an archive is indexed under path P, a byte-identical copy is in
\* the directory under a name Q that has no entry yet, and
\* updateLibraryIndex(id, rebuild=false) runs, the resulting index has an
\* entry whose jarPath is Q.
C2_CopyGetsOwnEntry ==
    [][\A P \in JarPaths, Q \in JarPaths :
          ( /\ ret'.op = "updateLibraryIndex"
            /\ ret'.err = ""
            /\ ~ret'.rebuild
            /\ P # Q
            /\ fs[P] \in ContentIds
            /\ fs[Q] = fs[P]
            /\ {P, Q} \subseteq Range(getJarFiles(fs,
                                  libraryGet(libraries, ret'.id).path))
            /\ \E i \in 1..Len(libraryGet(libraries, ret'.id).plugins) :
                 /\ libraryGet(libraries, ret'.id).plugins[i].jarPath = P
                 /\ libraryGet(libraries, ret'.id).plugins[i].hash
                      = Sha256[fs[P]]
            /\ Q \notin JarPathsOf(libraryGet(libraries, ret'.id).plugins) )
          => Q \in JarPathsOf(libraryGet(libraries', ret'.id).plugins)
      ]_vars

\* C3: updateLibraryIndex(id, rebuild=false) run right after a run of it (or
\* after the addLibrary that ran it) that returned, with no change of the
\* file system in between, persists the same set of entries as that run.
C3_ReindexIdempotent ==
    [][ret'.note = "repeat" =>
          Range(libraryGet(libraries', ret'.id).plugins)
            = Range(libraryGet(libraries, ret'.id).plugins)
      ]_vars

\* C3's case: a second run in a row has returned, over an archive with two
\* records.
C3_Witness ==
    /\ ret.note = "repeat"
    /\ \E p \in Candidates(ret.id) : fs[p] = "jarBridge"
    /\ Len(libraryGet(libraries, ret.id).plugins) >= 2

\* C4: updateLibraryIndex(id, rebuild=true) invokes getPluginInfo for every
\* candidate archive of the directory.
C4_RebuildExtractsAll ==
    Reindexed(TRUE) => Candidates(ret.id) \subseteq ret.extracted

\* C5: while the file at a path has not changed since the last
\* getPluginInfoWithCache of the path, no operation invokes getPluginInfo on
\* the path and every getPluginInfoWithCache of it returns the records that
\* call returned.
C5_UnchangedFileServedFromCache ==
    [][\A p \in JarPaths :
          seen[p] # Undefined =>
            /\ p \notin ret'.extracted
            /\ \A i \in 1..Len(ret'.calls) :
                 ret'.calls[i].path = p => ret'.calls[i].info = seen[p][1]
      ]_vars

\* C5's case: a call answered from the cache with the zero records of an
\* earlier extraction.
C5_Witness ==
    /\ ret.op = "getPluginInfoWithCache"
    /\ ret.err = ""
    /\ ret.extracted = {}
    /\ Len(ret.calls) = 1
    /\ ret.calls[1].info = <<>>

\* C6: a getPluginInfoWithCache of a path whose stored hash differs from the
\* file's hash, or that has nothing stored, invokes getPluginInfo, returns its
\* records and stores them with the new hash under the path; the entries of
\* the paths no extraction ran on are unchanged.
C6_MissExtractsAndOverwrites ==
    [][ /\ \A i \in 1..Len(ret'.calls) :
             ~( /\ ret'.calls[i].path \in DOMAIN cache
                /\ cache[ret'.calls[i].path].hash
                     = Sha256[fs[ret'.calls[i].path]] )
             => /\ ret'.calls[i].path \in ret'.extracted
                /\ ret'.calls[i].info = getPluginInfo(fs, ret'.calls[i].path)
                /\ ret'.calls[i].path \in DOMAIN cache'
                /\ cache'[ret'.calls[i].path]
                     = [info |-> getPluginInfo(fs, ret'.calls[i].path),
                        hash |-> Sha256[fs[ret'.calls[i].path]]]
        /\ \A q \in DOMAIN cache :
             q \notin ret'.extracted
             => q \in DOMAIN cache' /\ cache'[q] = cache[q]
      ]_vars

\* C6's case: a call has replaced the entry stored for its path under another
\* hash, and the entry of the other path is still there.
C6_Witness ==
    /\ ret.op = "getPluginInfoWithCache"
    /\ ret.note = "superseded"
    /\ DOMAIN cache = LibPaths

\* C7: in every state reached by file changes, reindexes, server listings and
\* installs, for every readable archive getPluginInfoWithCache returns what
\* getPluginInfo makes of the file's current content, and for every library
\* the index built with the cache is the index built with an empty cache.
C7_CacheIsPureOptimization ==
    /\ \A p \in JarPaths :
         fs[p] \in ContentIds
         => getPluginInfoWithCache(fs, cache, p).info = getPluginInfo(fs, p)
    /\ \A i \in 1..Len(libraries), rebuild \in BOOLEAN :
         updateLibraryIndex(fs, libraries, cache, libraries[i].id,
                            rebuild).libraries
           = updateLibraryIndex(fs, libraries, <<>>, libraries[i].id,
                                rebuild).libraries

\* C7's case: an install has replaced an archive of the plugins directory
\* that was cached under another hash, and the listing that followed
\* extracted it again, with a library indexed and its directory changed.
C7_Witness ==
    /\ ret.op = "listPlugins"
    /\ ret.err = ""
    /\ ret.note = "superseded"
    /\ Len(libraries) > 0
    /\ writes > 0

\* A candidate that is no readable zip archive.
BadArchive(p) == fs[p] \notin ContentIds \/ ~Jar(fs[p]).zip

\* C8: updateLibraryIndex of a known library returns whatever the candidates
\* hold, and a corrupt or unreadable candidate has no entry.
C8_BadArchiveSkipped ==
    (ret.op = "updateLibraryIndex" /\ ret.id \in libraryIds(libraries))
    => /\ ret.err = ""
       /\ \A p \in Candidates(ret.id) :
            BadArchive(p)
            => p \notin JarPathsOf(libraryGet(libraries, ret.id).plugins)

Matches(entry, filters) ==
    /\ given(filters.name) =>
         /\ entry.info.name # Undefined
         /\ includes(toLowerCase(entry.info.name[1]),
                     toLowerCase(filters.name[1]))
    /\ given(filters.pluginVersion) =>
         entry.info.version = filters.pluginVersion[1]
    /\ filters.platform # Undefined =>
         filters.platform[1] \in Range(entry.info.platform)

RECURSIVE Flatten(_)
\* The entries of the libraries, in order.
Flatten(libs) ==
    IF libs = <<>> THEN <<>> ELSE Head(libs).plugins \o Flatten(Tail(libs))

\* The entries the claim says findPlugin returns.
Matching(filters) ==
    SelectSeq(Flatten(IF givenId(filters.libraryId)
                      THEN SelectSeq(libraries,
                               LAMBDA l : l.id = filters.libraryId[1])
                      ELSE libraries),
              LAMBDA e : Matches(e, filters))

\* C10: findPlugin without latest returns exactly the entries, of the selected
\* library or of all libraries, that satisfy every filter given.
C10_FindReturnsMatches ==
    \A f \in Filters :
        (givenId(f.libraryId) => f.libraryId[1] \in libraryIds(libraries))
        => findPlugin(libraries, f) = [err |-> "", results |-> Matching(f)]

\* The last operation sorted the pair <<a, b>>.
Sorted(a, b) == ret.op = "sortVersions" /\ ret.versions = <<a, b>>

\* a is ordered before b, or level with it.
NotAfter(a, b) == compareVersions(a, b) <= 0

\* C15: the comparison function is a total ordering of version strings: the
\* signs of compare(a, b) and compare(b, a) are opposite (both 0 for a tie),
\* and a not after b with b not after c gives a not after c.
C15_ComparatorIsTotalOrder ==
    \A a \in VersionStrings, b \in VersionStrings :
        Sorted(a, b) =>
            /\ compareVersions(a, b) = -compareVersions(b, a)
            /\ \A c \in VersionStrings :
                  NotAfter(a, b) /\ NotAfter(b, c) => NotAfter(a, c)

\* C16: when two version strings both coerce to structural versions that
\* differ, sortVersions puts the structurally greater first; in every other
\* case (one fails to coerce, or the structural versions are equal) a string
\* that holds SNAPSHOT is put after one that does not.
C16_PairOrder ==
    \A a \in VersionStrings, b \in VersionStrings :
        Sorted(a, b) =>
            IF /\ coerce(a) # Undefined
               /\ coerce(b) # Undefined
               /\ coerce(a) # coerce(b)
            THEN ret.sorted[1] =
                     (IF rcompare(coerce(a)[1], coerce(b)[1]) < 0 THEN a ELSE b)
            ELSE includes(a, SnapshotMarker) # includes(b, SnapshotMarker) =>
                     /\ ~includes(ret.sorted[1], SnapshotMarker)
                     /\ includes(ret.sorted[2], SnapshotMarker)

\* A pair sorted by the marker alone, and one sorted against it by structure.
C16_Witness ==
    \/ Sorted(V_1_2_0_SNAPSHOT, V_1_2)
    \/ Sorted(V_1_2_0, V_2_0_SNAPSHOT)

\* The filters of FindFilters that ask for the latest versions.
LatestFilters == {f \in FindFilters : f.latest}

\* The same filters, latest not asked for.
NotLatest(f) == [f EXCEPT !.latest = FALSE]

\* The names of the entries.
NamesOf(entries) == {entries[i].info.name : i \in 1..Len(entries)}

\* The entries of the given name.
OfName(entries, name) == SelectSeq(entries, LAMBDA e : e.info.name = name)

\* r holds one entry of all for each name in all, and nothing else.
OnePerName(all, r) ==
    /\ Range(r) \subseteq Range(all)
    /\ NamesOf(r) = NamesOf(all)
    /\ \A i \in 1..Len(r), j \in 1..Len(r) :
          r[i].info.name = r[j].info.name => i = j

\* C11: findPlugin with latest fails exactly when the same search without
\* latest fails, and otherwise returns entries of that search: one for every
\* name that search returns an entry of, and no two of one name.
C11_OneEntryPerName ==
    \A f \in LatestFilters :
        \A all \in {findPlugin(libraries, NotLatest(f))},
           r \in {findPlugin(libraries, f)} :
            /\ r.err = all.err
            /\ r.err = "" => OnePerName(all.results, r.results)

\* findPlugin with latest has returned entries of an index that holds two
\* entries of one name and an entry of another.
C11_Witness ==
    /\ ret.op = "findPlugin"
    /\ ret.latest
    /\ ret.note = "found"
    /\ Len(Flatten(libraries)) = 3
    /\ Cardinality(NamesOf(Flatten(libraries))) = 2

\* C12: the entry findPlugin with latest keeps for a name is the
\* highest-ranked one: the comparison ranks the version of no entry of that
\* name, among those the other filters leave, strictly before the version of
\* the kept entry.
C12_KeptIsHighestRanked ==
    \A f \in LatestFilters :
        \A all \in {findPlugin(libraries, NotLatest(f))},
           r \in {findPlugin(libraries, f)} :
            r.err = "" =>
                \A i \in 1..Len(r.results), j \in 1..Len(all.results) :
                    all.results[j].info.name = r.results[i].info.name =>
                        compareVersions(all.results[j].info.version,
                                        r.results[i].info.version) >= 0

\* The index holds the entries of A.jar (Foo 1.0, Bukkit) and B.jar (Foo 2.0,
\* Velocity) and no other.
TwoPlatformsOfFoo ==
    /\ fs[join(VerDir, F_a)] = "jarBukkit"
    /\ fs[join(VerDir, F_b)] = "jarVelocity"
    /\ fs[join(VerDir, F_c)] = "absent"
    /\ Len(Flatten(libraries)) = 2

\* C13: with A.jar (Foo 1.0, Bukkit) and B.jar (Foo 2.0, Velocity) indexed,
\* findPlugin({name: "Foo", latest: true}) returns both entries.
C13_BothPlatformsReturned ==
    TwoPlatformsOfFoo =>
        Len(findPlugin(libraries,
                       [NoFilters EXCEPT !.name = Some(S_Foo),
                                         !.latest = TRUE]).results) = 2

\* The versions of the entries.
VersionsOf(entries) == {entries[i].info.version : i \in 1..Len(entries)}

\* The version of every entry coerces to major.minor.patch.
Coercible(entries) ==
    \A i \in 1..Len(entries) : coerce(entries[i].info.version) # Undefined

\* kept is of the structurally greatest version of group, and holds no
\* SNAPSHOT marker when an entry of the same structure holds none.
Greatest(group, kept) ==
    \A i \in 1..Len(group) :
        /\ rcompare(coerce(group[i].info.version)[1],
                    coerce(kept.info.version)[1]) >= 0
        /\ ( /\ coerce(group[i].info.version) = coerce(kept.info.version)
             /\ ~includes(group[i].info.version, SnapshotMarker) )
           => ~includes(kept.info.version, SnapshotMarker)

\* C14: of a group of same-name entries whose versions all coerce, findPlugin
\* with latest keeps an entry of the structurally greatest version, without
\* SNAPSHOT when one of the structurally equal versions is without it, in
\* whatever order the entries are listed: 1.10.0 of 1.2.0, 1.10.0 and
\* 1.2.0-SNAPSHOT, and 2.0 of 2.0-SNAPSHOT and 2.0.
C14_GreatestOfCoercible ==
    \A f \in LatestFilters :
        \A all \in {findPlugin(libraries, NotLatest(f))},
           r \in {findPlugin(libraries, f)} :
            r.err = "" =>
                \A i \in 1..Len(r.results) :
                    \A group \in {OfName(all.results, r.results[i].info.name)} :
                        Coercible(group) =>
                            /\ Greatest(group, r.results[i])
                            /\ VersionsOf(group)
                                   = {V_1_2_0, V_1_10_0, V_1_2_0_SNAPSHOT}
                               => r.results[i].info.version = V_1_10_0
                            /\ VersionsOf(group) = {V_2_0_SNAPSHOT, S_2_0}
                               => r.results[i].info.version = S_2_0

\* findPlugin with latest has returned entries of an index whose entries are
\* 1.2.0, 1.10.0 and 1.2.0-SNAPSHOT, or 2.0-SNAPSHOT and 2.0.
C14_Witness ==
    /\ ret.op = "findPlugin"
    /\ ret.latest
    /\ ret.note = "found"
    /\ \/ /\ Len(Flatten(libraries)) = 3
          /\ VersionsOf(Flatten(libraries))
                 = {V_1_2_0, V_1_10_0, V_1_2_0_SNAPSHOT}
       \/ /\ Len(Flatten(libraries)) = 2
          /\ VersionsOf(Flatten(libraries)) = {V_2_0_SNAPSHOT, S_2_0}

\* The last operation was getPluginInfoWithCache(p) and it returned.
Extracted(p) ==
    /\ ret.op = "getPluginInfoWithCache"
    /\ ret.calls # <<>>
    /\ ret.calls[1].path = p

\* What getPluginInfo returns for path p once it holds content c.
InfoOf(p, c) == getPluginInfo([fs EXCEPT ![p] = c], p)

\* The archive of the descriptor at position i of k, in its state, alone.
Single(k, i) ==
    probeId([j \in 1..3 |-> IF j = i THEN k[j] ELSE "none"])

\* The platform a probe tags its record with.
ProbeTag == <<"Velocity", "BungeeCord", "Folia">>

\* C17: what getPluginInfo returns for an archive is what it returns for the
\* archive of the Velocity descriptor alone, then for that of the BungeeCord
\* descriptor alone, then for that of the Common descriptor alone; a
\* descriptor that is missing or malformed gives nothing, and what a
\* descriptor gives is a record of its probe's platform.
C17_ProbesIndependent ==
    \A p \in LibPaths :
        Extracted(p) /\ fs[p] \in ProbeIds =>
            \A k \in {ProbeKeyOf[fs[p]]} :
                /\ ret.calls[1].info =
                       InfoOf(p, Single(k, 1)) \o InfoOf(p, Single(k, 2))
                       \o InfoOf(p, Single(k, 3))
                /\ \A i \in 1..3 :
                      /\ k[i] \in {"none", "malformed"} =>
                            InfoOf(p, Single(k, i)) = <<>>
                      /\ k[i] = "ok" =>
                            /\ Len(InfoOf(p, Single(k, i))) = 1
                            /\ InfoOf(p, Single(k, i))[1].platform
                                   = <<ProbeTag[i]>>

\* An archive of which two descriptors give a record and the third is
\* malformed has been extracted.
C17_Witness ==
    \E p \in LibPaths :
        /\ Extracted(p)
        /\ fs[p] \in ProbeIds
        /\ Len(ret.calls[1].info) = 2
        /\ \E i \in 1..3 : ProbeKeyOf[fs[p]][i] = "malformed"

\* The names of the entries of the archive at p; none for a file that is no
\* archive.
EntryNames(p) ==
    IF BadArchive(p) THEN {} ELSE {e.name : e \in Jar(fs[p]).entries}

\* The archive at p holds none of the three descriptor entries.
NoDescriptor(p) == EntryNames(p) \cap {VelocityJson, BungeeYml, PluginYml} = {}

\* C18: for an archive that holds none of velocity-plugin.json, bungee.yml
\* and plugin.yml, getPluginInfo returns the empty list.
C18_NoDescriptorNoRecord ==
    \A p \in LibPaths :
        Extracted(p) /\ NoDescriptor(p) => ret.calls[1].info = <<>>

\* An archive that holds a class and no descriptor has been extracted.
C18_Witness ==
    \E p \in LibPaths :
        /\ Extracted(p)
        /\ NoDescriptor(p)
        /\ EntryNames(p) # {}

\* The archive at p holds velocity-plugin.json and neither of the other two
\* descriptors.
VelocityOnly(p) ==
    EntryNames(p) \cap {VelocityJson, BungeeYml, PluginYml} = {VelocityJson}

\* One record, tagged Velocity alone.
OneVelocityRecord(info) ==
    Len(info) = 1 /\ info[1].platform = <<"Velocity">>

\* C19 as stated: for every archive whose only descriptor entry is
\* velocity-plugin.json, getPluginInfo returns exactly one record, of
\* platform set {Velocity}.
C19_VelocityOnlyOneRecord ==
    \A p \in LibPaths :
        Extracted(p) /\ VelocityOnly(p) => OneVelocityRecord(ret.calls[1].info)

\* The text of velocity-plugin.json at p is not empty and parses as JSON to
\* a value other than null.
VelocityParses(p) ==
    \A e \in Jar(fs[p]).entries :
        e.name = VelocityJson =>
            ~e.text.empty /\ e.text.ok /\ e.text.kind # "null"

\* C19: for every archive whose only descriptor entry is a
\* velocity-plugin.json that is not empty and parses as JSON to a value
\* other than null, getPluginInfo returns exactly one record, of platform
\* set {Velocity}.
C19_ParsedVelocityOnlyOneRecord ==
    \A p \in LibPaths :
        Extracted(p) /\ VelocityOnly(p) /\ VelocityParses(p) =>
            OneVelocityRecord(ret.calls[1].info)

\* An archive whose only descriptor is a velocity-plugin.json that parses
\* to a number has been extracted.
C19_Witness ==
    \E p \in LibPaths :
        /\ Extracted(p)
        /\ fs[p] = probeId(<<"scalar", "none", "none">>)

\* The platforms of the records.
PlatformsOf(info) ==
    UNION {Range(info[i].platform) : i \in 1..Len(info)}

\* C20: for an archive whose plugin.yml names a main class that can be read,
\* the record of the Common probe has BungeeCord among its platforms when
\* the class holds net/md_5/bungee/api/plugin/Plugin, and Bukkit when it
\* holds org/bukkit/plugin/java/JavaPlugin or org/bukkit/Bukkit, also when
\* it holds markers of both families.
C20_MarkersGivePlatforms ==
    \A p \in LibPaths :
        ( /\ Extracted(p)
          /\ fs[p] \in ClassIds
          /\ ClassKeyOf[fs[p]].main = "class" ) =>
            \A pool \in {ClassKeyOf[fs[p]].pool} :
                /\ Len(ret.calls[1].info) = 1
                /\ BungeeMarker \in pool =>
                      "BungeeCord" \in PlatformsOf(ret.calls[1].info)
                /\ (JavaPluginMarker \in pool \/ BukkitMarker \in pool) =>
                      "Bukkit" \in PlatformsOf(ret.calls[1].info)

\* The last operation extracted the archive at p, a plugin.yml alone or with
\* its main class.
ExtractedClass(p) == Extracted(p) /\ fs[p] \in ClassIds

\* C21: when plugin.yml names a main class that can be read and holds none
\* of the markers, the record of the Common probe has both Bukkit and
\* BungeeCord among its platforms.
C21_UnknownClassGivesBoth ==
    \A p \in LibPaths :
        ( /\ ExtractedClass(p)
          /\ ClassKeyOf[fs[p]].main = "class"
          /\ ClassKeyOf[fs[p]].pool = {} ) =>
            /\ Len(ret.calls[1].info) = 1
            /\ {"Bukkit", "BungeeCord"} \subseteq PlatformsOf(ret.calls[1].info)

\* An archive whose main class holds no marker and whose plugin.yml does not
\* set folia-supported has been extracted.
C21_Witness ==
    \E p \in LibPaths :
        /\ ExtractedClass(p)
        /\ ClassKeyOf[fs[p]] =
               [main |-> "class", pool |-> {}, folia |-> "absent"]

\* C22: when folia-supported of plugin.yml is the boolean true the record of
\* the Common probe has Folia among its platforms, whether main is not set,
\* the class cannot be read, it holds markers or it holds none; when the
\* field is not set or is not the boolean true no record has Folia.
C22_FoliaIndependentOfMainClass ==
    \A p \in LibPaths :
        ExtractedClass(p) =>
            IF ClassKeyOf[fs[p]].folia = "true"
            THEN /\ Len(ret.calls[1].info) = 1
                 /\ "Folia" \in PlatformsOf(ret.calls[1].info)
            ELSE "Folia" \notin PlatformsOf(ret.calls[1].info)

\* An archive with folia-supported true whose main class cannot be read, or
\* one with folia-supported "true" whose main class holds a marker, has been
\* extracted.
C22_Witness ==
    \E p \in LibPaths :
        /\ ExtractedClass(p)
        /\ \/ ClassKeyOf[fs[p]] =
                  [main |-> "noclass", pool |-> {}, folia |-> "true"]
           \/ ClassKeyOf[fs[p]] =
                  [main |-> "class", pool |-> {BukkitMarker},
                   folia |-> "string"]

\* The records the last operation was returned by getPluginInfoWithCache,
\* those the cache holds and those the library indexes hold.
RecordsHeld ==
    UNION {Range(ret.calls[i].info) : i \in 1..Len(ret.calls)}
    \cup UNION {Range(cache[q].info) : q \in DOMAIN cache}
    \cup {e.info : e \in Range(Flatten(libraries))}

\* C23: every record getPluginInfo has returned, every record of the cache
\* and every record of a library index has at least one platform.
C23_NoEmptyPlatformSet ==
    \A r \in RecordsHeld : Len(r.platform) > 0

\* The archive of a plugin.yml that sets neither main nor folia-supported
\* has been indexed: the cache holds its empty list of records.
C23_Witness ==
    \E p \in LibPaths :
        /\ fs[p] = classId([main |-> "nomain", pool |-> {}, folia |-> "absent"])
        /\ p \in DOMAIN cache
        /\ cache[p].info = <<>>
        /\ Len(libraries) > 0

\* The records of the entries of plugins that carry path p and hash h, in
\* order.
InfosAt(plugins, p, h) ==
    [i \in 1..Len(SelectSeq(plugins,
                            LAMBDA e : e.jarPath = p /\ e.hash = h)) |->
        SelectSeq(plugins, LAMBDA e : e.jarPath = p /\ e.hash = h)[i].info]

\* C24: when updateLibraryIndex(id) has returned, for every archive it
\* obtained records of, the entries of the index that carry the archive's
\* path and hash are the records returned, one entry each and none for an
\* empty list; and an incremental run keeps every entry of an archive that is
\* still a candidate under the hash recorded.
C24_OneEntryPerRecord ==
    [][ ( /\ ret'.op = "updateLibraryIndex"
          /\ ret'.err = "" ) =>
          \A plugins \in {libraryGet(libraries', ret'.id).plugins} :
              /\ \A i \in 1..Len(ret'.calls) :
                    InfosAt(plugins, ret'.calls[i].path,
                            getFileHash(fs', ret'.calls[i].path).hash)
                        = ret'.calls[i].info
              /\ ~ret'.rebuild =>
                    \A e \in Range(libraryGet(libraries, ret'.id).plugins) :
                        ( /\ e.jarPath \in Candidates(ret'.id)
                          /\ getFileHash(fs, e.jarPath).hash = e.hash )
                        => e \in Range(plugins) ]_vars

\* An incremental updateLibraryIndex has obtained the empty list of an
\* archive and has kept the two entries, of different records, of another.
C24_Witness ==
    /\ Reindexed(FALSE)
    /\ \E i \in 1..Len(ret.calls) : ret.calls[i].info = <<>>
    /\ \E p \in LibPaths :
          /\ \A i \in 1..Len(ret.calls) : ret.calls[i].path # p
          /\ \A infos \in {InfosAt(libraryGet(libraries, ret.id).plugins, p,
                                   getFileHash(fs, p).hash)} :
                Len(infos) = 2 /\ infos[1] # infos[2]

\* C25: every record of a library index has a name that is a string and a
\* version that is a string.  (A version is a string of the model by
\* ensureString; a name the descriptor does not set is Undefined.)
C25_NameAndVersionAreStrings ==
    \A e \in Range(Flatten(libraries)) :
        /\ e.info.name # Undefined
        /\ e.info.version \in Seq(STRING)

\* A call of the operation has returned without an error.
Returned(t, op) ==
    /\ tasks[t].op = op
    /\ tasks[t].pc = "done"
    /\ tasks[t].err = ""

\* The persisted map holds the entries the call computed for its library.
Persisted(t) ==
    /\ tasks[t].id \in libraryIds(libraries)
    /\ libraryGet(libraries, tasks[t].id).plugins
          = libraryGet(tasks[t].libs, tasks[t].id).plugins

\* C26: once two calls of updateLibraryIndex for different library ids have
\* both returned, however their reads and writes of the storage were
\* interleaved, the persisted map holds the entries each of them computed
\* for its library.
C26_DisjointReindexesBothPersisted ==
    \A t \in TaskIds, u \in TaskIds :
        ( /\ Returned(t, "updateLibraryIndex")
          /\ Returned(u, "updateLibraryIndex")
          /\ tasks[t].id # tasks[u].id )
        => Persisted(t) /\ Persisted(u)

\* C27: a write stores the writer's own copy of the whole map, whatever is
\* stored by then: what another call has stored since the writer read the
\* map is gone unless the writer's copy holds it (the last write wins).
C27_LastWriteWins ==
    [][ \A t \in TaskIds :
          /\ ( /\ tasks[t].pc \in {"write", "indexWrite"}
               /\ tasks'[t].pc \notin {"write", "indexWrite"} )
             => libraries' = tasks[t].libs
          /\ ( /\ tasks[t].pc = "cacheWrite"
               /\ tasks'[t].pc # "cacheWrite" )
             => cache' = tasks[t].cch ]_vars

\* Two calls of addLibrary with different ids have both returned without an
\* error and the persisted map lacks the library one of them added.
C27_Witness ==
    \E t \in TaskIds, u \in TaskIds :
        /\ Returned(t, "addLibrary")
        /\ Returned(u, "addLibrary")
        /\ tasks[t].id # tasks[u].id
        /\ tasks[t].id \notin libraryIds(libraries)
        /\ tasks[u].id \in libraryIds(libraries)

\* Two calls of getPluginInfoWithCache on different paths have both stored
\* their records and the persisted cache lacks the path of one of them.
C27_CacheUpdateLost ==
    \E t \in TaskIds, u \in TaskIds :
        /\ Returned(t, "getPluginInfoWithCache") /\ tasks[t].wrote
        /\ Returned(u, "getPluginInfoWithCache") /\ tasks[u].wrote
        /\ tasks[t].jarPath # tasks[u].jarPath
        /\ tasks[t].jarPath \notin DOMAIN cache
        /\ tasks[u].jarPath \in DOMAIN cache

\* libraries[id], undefined for an id the map has not.
EntryOf(libs, id) ==
    IF id \in libraryIds(libs) THEN Some(libraryGet(libs, id)) ELSE Undefined

\* C28: an operation changes the persisted entry of its own id only:
\* addLibrary(id) creates it, removeLibrary(id) deletes it,
\* updateLibraryIndex(id) alone changes the entries of a library that stays
\* in the map, the id and the path of a library stay what they are while it
\* is in the map, and findPlugin changes nothing that is persisted.
C28_OnlyOwnEntryChanges ==
    [][ /\ \A id \in FindLibIds :
              \A old \in {EntryOf(libraries, id)},
                 new \in {EntryOf(libraries', id)} :
                  /\ old # new =>
                        /\ ret'.id = id
                        /\ ret'.op \in {"addLibrary", "removeLibrary",
                                        "updateLibraryIndex"}
                  /\ (old = Undefined /\ new # Undefined) =>
                        ret'.op = "addLibrary"
                  /\ (old # Undefined /\ new = Undefined) =>
                        ret'.op = "removeLibrary"
                  /\ (old # Undefined /\ new # Undefined) =>
                        /\ new[1].id = old[1].id
                        /\ new[1].path = old[1].path
                        /\ new[1].plugins # old[1].plugins =>
                              ret'.op = "updateLibraryIndex"
        /\ ret'.op = "findPlugin" =>
              /\ libraries' = libraries
              /\ cache' = cache
              /\ fs' = fs ]_vars

\* An index update of one library has just stored entries of a file that
\* changed since the other library of the same directory was indexed, and
\* the other library holds its older entries.
C28_Witness ==
    /\ ret.op = "updateLibraryIndex"
    /\ ret.err = ""
    /\ ret.extracted # {}
    /\ libraryIds(libraries) = FindLibIds
    /\ \A other \in FindLibIds \ {ret.id} :
          /\ libraryGet(libraries, other).plugins # <<>>
          /\ libraryGet(libraries, other).plugins
                # libraryGet(libraries, ret.id).plugins

\* p.info.name of the archive at path as listPlugins of the server gives it.
ListedName(server, path) ==
    With(thisPlatformInfo(getPluginInfo(fs, path), server.platform),
         LAMBDA info : IF info = Undefined THEN Undefined ELSE info[1].name)

\* C29: after installOrUpdatePlugin has succeeded the server's plugins
\* directory holds the copy of the archive under its base name and no other
\* archive of the new plugin's name.
C29_NoOtherArchiveOfTheName ==
    ( /\ ret.op = "installOrUpdatePlugin"
      /\ ret.err = "" ) =>
        \A server \in {servers[ret.id]}, pluginPath \in {ret.calls[1].path} :
            \A target \in {join(joinDir(server.path, "plugins"),
                                 basename(pluginPath))} :
                /\ fs[target] = fs[pluginPath]
                /\ \A other \in Range(getJarFiles(fs, target.dir)) \ {target} :
                      ListedName(server, other) # ListedName(server, target)

HoldsEntry(path, name) ==
    /\ fs[path] \in ContentIds
    /\ Jar(fs[path]).zip
    /\ \E e \in Jar(fs[path]).entries : e.name = name

\* C31: readFileFromJar returns the text of the named entry when the archive
\* exists, opens as a zip container and holds the entry; it throws otherwise
\* (no file, not a zip container, no such entry); and it changes neither the
\* files nor what is stored.
C31_TextOnlyOfHeldEntry ==
    [][ ret'.op = "readFileFromJar" =>
          /\ (ret'.err = "") <=> HoldsEntry(ret'.jarPath, ret'.filePath)
          /\ ret'.err = "" =>
                \A e \in Jar(fs[ret'.jarPath]).entries :
                    e.name = ret'.filePath => ret'.text = e.text
          /\ fs' = fs
          /\ libraries' = libraries
          /\ cache' = cache
          /\ servers' = servers ]_vars

\* A read has thrown on an archive that opens as a zip container, holds
\* entries and has not the entry asked for.
C31_Witness ==
    /\ ret.op = "readFileFromJar"
    /\ ret.err # ""
    /\ fs[ret.jarPath] \in ContentIds
    /\ Jar(fs[ret.jarPath]).zip
    /\ Jar(fs[ret.jarPath]).entries # {}

\* C32: after an incremental updateLibraryIndex has returned, the hash of
\* every entry of the library is the content hash of the file that is at the
\* entry's jarPath.
C32_EntryHashIsOfItsPath ==
    Reindexed(FALSE) =>
        \A e \in Range(libraryGet(libraries, ret.id).plugins) :
            /\ ~getFileHash(fs, e.jarPath).throws
            /\ getFileHash(fs, e.jarPath).hash = e.hash

RECURSIVE RecordCount(_)
\* The number of records the archives of jarFiles hold.
RecordCount(jarFiles) ==
    IF jarFiles = <<>> THEN 0
    ELSE Len(getPluginInfo(fs, Head(jarFiles))) + RecordCount(Tail(jarFiles))

\* C33: after updateLibraryIndex has returned, no two entries of the library
\* are equal in jarPath, hash and record, and the library has no more
\* entries than the archives of its directory hold records.
C33_NoDuplicateEntries ==
    ( /\ ret.op = "updateLibraryIndex"
      /\ ret.err = "" ) =>
        \A plugins \in {libraryGet(libraries, ret.id).plugins} :
            /\ \A i \in 1..Len(plugins), j \in 1..Len(plugins) :
                  plugins[i] = plugins[j] => i = j
            /\ Len(plugins)
                  <= RecordCount(getJarFiles(fs, libraryGet(libraries,
                                                            ret.id).path))

\* C34: an updateLibraryIndex that fails, with or without rebuild, leaves the
\* persisted entries of every library as they were before the call.
C34_FailedReindexChangesNothing ==
    [][ ( /\ ret'.op = "updateLibraryIndex"
          /\ ret'.err # "" ) => libraries' = libraries ]_vars

\* A rebuild of a library that has entries has failed on a candidate that
\* cannot be read, after it had obtained the records of an earlier one.
C34_Witness ==
    /\ ret.op = "updateLibraryIndex"
    /\ ret.err = "ReadError"
    /\ ret.rebuild
    /\ ret.calls # <<>>
    /\ ret.calls[1].info # <<>>
    /\ libraryGet(libraries, ret.id).plugins # <<>>

\* C35: an addLibrary that fails leaves the persisted map as it was; one that
\* succeeds leaves the library in the map with the resolved path.
C35_AddLibraryAllOrNothing ==
    [][ ret'.op = "addLibrary" =>
          /\ ret'.err # "" => libraries' = libraries
          /\ ret'.err = "" =>
                /\ ret'.id \in libraryIds(libraries')
                /\ libraryGet(libraries', ret'.id).path \in Directories ]_vars

\* C36: updateLibraryIndex of a known library whose directory cannot be read
\* returns without an error and persists the library with no entries.
C36_UnreadableDirectoryEmptiesIndex ==
    [][ ( /\ ret'.op = "updateLibraryIndex"
          /\ ret'.id \in libraryIds(libraries)
          /\ ~isDirectory(fs, libraryGet(libraries, ret'.id).path) ) =>
            /\ ret'.err = ""
            /\ libraryGet(libraries', ret'.id).plugins = <<>>
            /\ libraryGet(libraries', ret'.id).path
                  = libraryGet(libraries, ret'.id).path ]_vars

\* The directory of a library whose archives had been indexed is gone and an
\* index update has returned without an error and left no entries.
C36_Witness ==
    /\ ret.op = "updateLibraryIndex"
    /\ ret.err = ""
    /\ ret.id \in libraryIds(libraries)
    /\ ~isDirectory(fs, libraryGet(libraries, ret.id).path)
    /\ libraryGet(libraries, ret.id).plugins = <<>>
    /\ \E p \in DOMAIN cache : cache[p].info # <<>>

\* C37: the library install command given --plugin-version V and not
\* --latest deploys only an entry whose version is V, and does not stop on
\* several matches when one entry only has that version.
C37_InstallsTheVersionAsked ==
    ( /\ ret.op = "libraryInstall"
      /\ given(ret.pluginVersion)
      /\ ~ret.latest ) =>
        /\ ret.entry # Undefined =>
              ret.entry[1].info.version = ret.pluginVersion[1]
        /\ ret.err = "Multiple" =>
              \E i \in 1..Len(libraries) :
                  Cardinality({e \in Range(libraries[i].plugins) :
                                  e.info.version
                                    = ret.pluginVersion[1]}) > 1

\* The index entries that match what the library install command was given:
\* name, version when one is given, latest, and the server's platform (the
\* one library of the model is the library the command may name).
MatchesOf(r, version) ==
    findPlugin(libraries,
               [name |-> Some(r.name), pluginVersion |-> version,
                latest |-> r.latest, platform |-> Some(servers[r.id].platform),
                libraryId |-> Undefined]).results

\* The command goes on to install: the server is known, a version or latest
\* is given, and exactly one index entry matches.
OneMatch(r, version) ==
    /\ r.id \in DOMAIN servers
    /\ given(r.pluginVersion) \/ r.latest
    /\ Len(MatchesOf(r, version)) = 1

\* C38: the library install command changes the server's plugins directory
\* only when exactly one index entry matches its filters; otherwise (no
\* match, several matches, neither a version nor latest, unknown server) it
\* reports an error and the plugins directory is as it was.
C38_InstallsOnlyOnOneMatch ==
    [][ ret'.op = "libraryInstall" =>
          \/ OneMatch(ret', ret'.pluginVersion)
          \/ /\ ret'.err # ""
             /\ \A p \in SrvPaths : fs'[p] = fs[p] ]_vars

\* C39: listPlugins gives a defined record with a name for every archive of
\* the plugins directory, and neither installOrUpdatePlugin nor removePlugin
\* fails on reading the name of a listed plugin.
C39_ListedPluginsHaveNames ==
    /\ ( /\ ret.op = "listPlugins"
         /\ ret.err = "" ) =>
           \A i \in 1..Len(ret.calls) :
               \A info \in {thisPlatformInfo(ret.calls[i].info,
                                              servers[ret.id].platform)} :
                   /\ info # Undefined
                   /\ info[1].name # Undefined
    /\ ret.op \in {"installOrUpdatePlugin", "removePlugin"} =>
           ret.err # "TypeError"

\* C40: addServer fails and leaves the server map as it was when the id is
\* already there, the platform is not a supported one, or the path is not
\* accessible.  updateServer fails in the same way for an id that is not
\* there, a given platform that is not supported and a given path that is
\* not accessible; when it succeeds it changes no other server, no field
\* that was not given, and not the id.  removeServer, when it succeeds,
\* leaves the map without the named server and otherwise as it was.
C40_RegistryChecks ==
    [][ /\ \A id \in RegistryIds, d \in ServerPathArgs,
              pf \in RegistryPlatforms :
              ( /\ AddServer(id, d, pf)
                /\ \/ id \in DOMAIN servers
                   \/ pf \notin SupportedPlatform
                   \/ ~access(resolve(d)) ) =>
                     /\ ret'.err # ""
                     /\ servers' = servers
        /\ \A id \in RegistryIds, updates \in RegistryUpdates :
              UpdateServer(id, updates) =>
                  /\ ( \/ id \notin DOMAIN servers
                       \/ /\ "platform" \in DOMAIN updates
                          /\ updates.platform \notin SupportedPlatform
                       \/ /\ "path" \in DOMAIN updates
                          /\ ~access(resolve(updates.path)) ) =>
                            /\ ret'.err # ""
                            /\ servers' = servers
                  /\ ( /\ ret'.err = ""
                       /\ id \in DOMAIN servers ) =>
                            /\ DOMAIN servers' = DOMAIN servers
                            /\ \A k \in DOMAIN servers \ {id} :
                                   servers'[k] = servers[k]
                            /\ \A f \in DOMAIN servers[id] \ DOMAIN updates :
                                   /\ f \in DOMAIN servers'[id]
                                   /\ servers'[id][f] = servers[id][f]
                            /\ servers'[id].id = servers[id].id
        /\ \A id \in RegistryIds :
              ( /\ RemoveServer(id)
                /\ ret'.err = "" ) =>
                     /\ id \notin DOMAIN servers'
                     /\ \A k \in DOMAIN servers \ {id} :
                            /\ k \in DOMAIN servers'
                            /\ servers'[k] = servers[k]
      ]_vars

====
